---- MODULE Spec2Model ----
(***************************************************************************)
(* Codec layer of twitter-archive: the serde "with" modules under          *)
(* src/convert and the derived (de)serializers of the direct-message       *)
(* structures.  A caller holds either a JSON value or a typed value and    *)
(* alternately deserializes and serializes it with one codec; hist records *)
(* what each call returned.                                                *)
(*                                                                         *)
(* JSON text is modelled as a tree: strings are sequences of one-character *)
(* strings, objects are ordered sequences of members (so key order, extra  *)
(* keys and duplicate keys are all visible).                               *)
(***************************************************************************)
EXTENDS Integers, Sequences, FiniteSets, TLC

VARIABLES codec, hist, calls

vars == <<codec, hist, calls>>

(***************************************************************************)
(* Bounds of the model.                                                    *)
(***************************************************************************)
\* number of (de)serialize calls one caller chains
MaxSteps == 4
\* longest numeric string handed to number_like_string
MaxNumLen == 3
\* longest array handed to indices
MaxIdxLen == 3
\* width of usize in the model, in bits (the target has 64)
UsizeBits == 8

UsizeMax == 2^UsizeBits - 1

(***************************************************************************)
(* JSON values.                                                            *)
(***************************************************************************)
JStr(t) == [kind |-> "string", text |-> t]
JNum(n) == [kind |-> "number", n |-> n]
JBool(b) == [kind |-> "bool", b |-> b]
JNull == [kind |-> "null"]
JArr(items) == [kind |-> "array", items |-> items]
JObj(members) == [kind |-> "object", members |-> members]
Member(k, v) == [key |-> k, val |-> v]

(***************************************************************************)
(* Result<T, E> of a deserialize call; a panic unwinds instead of          *)
(* returning.                                                              *)
(***************************************************************************)
Ok(v) == [tag |-> "Ok", val |-> v]
Err(msg) == [tag |-> "Err", msg |-> msg]
Panic(msg) == [tag |-> "Panic", msg |-> msg]
IsOk(r) == r.tag = "Ok"
\* the ? operator: an Err (or an unwinding panic) leaves at once
AndThen(r, F(_)) == IF IsOk(r) THEN F(r.val) ELSE r

(***************************************************************************)
(* Characters.                                                             *)
(***************************************************************************)
Digits == {"0", "1", "2", "3", "4", "5", "6", "7", "8", "9"}
DigitChars == <<"0", "1", "2", "3", "4", "5", "6", "7", "8", "9">>
DigitVal(c) == CHOOSE d \in 0..9 : DigitChars[d + 1] = c
DigitChar(d) == DigitChars[d + 1]

Drop(s, n) == SubSeq(s, n + 1, Len(s))
Take(s, n) == SubSeq(s, 1, n)

\* all sequences over S of length 0..n
RECURSIVE SeqsUpTo(_, _)
SeqsUpTo(S, n) ==
    IF n = 0 THEN {<<>>}
    ELSE LET shorter == SeqsUpTo(S, n - 1)
         IN shorter \cup {Append(s, c) : s \in {t \in shorter : Len(t) = n - 1}, c \in S}

(***************************************************************************)
(* str::parse::<usize>() and usize::to_string()                            *)
(***************************************************************************)
\* variant of ParseDigits that takes the maximum itself for an overflow
RECURSIVE ParseDigitsBelowMax(_, _)
ParseDigitsBelowMax(s, acc) ==
    IF s = <<>> THEN Ok(acc)
    ELSE IF Head(s) \notin Digits THEN Err("InvalidDigit")
    ELSE IF acc * 10 + DigitVal(Head(s)) >= UsizeMax THEN Err("PosOverflow")
    ELSE ParseDigitsBelowMax(Tail(s), acc * 10 + DigitVal(Head(s)))

\* checked accumulation of decimal digits, most significant first
RECURSIVE ParseDigits(_, _)
ParseDigits(s, acc) ==
    IF s = <<>> THEN Ok(acc)
    ELSE IF Head(s) \notin Digits THEN Err("InvalidDigit")
    ELSE IF acc * 10 + DigitVal(Head(s)) > UsizeMax THEN Err("PosOverflow")
    ELSE ParseDigits(Tail(s), acc * 10 + DigitVal(Head(s)))

\* variant of ParseUsize that takes no sign at all
ParseUsizeUnsigned(s) == IF s = <<>> THEN Err("Empty") ELSE ParseDigits(s, 0)

ParseUsize(s) ==
    IF s = <<>> THEN Err("Empty")
    ELSE LET digits == IF Head(s) = "+" THEN Tail(s) ELSE s
         IN IF digits = <<>> THEN Err("InvalidDigit") ELSE ParseDigits(digits, 0)

\* variant of UsizeToString that writes at least three digits
UsizeToStringPadded(n) ==
    <<DigitChar((n \div 100) % 10), DigitChar((n \div 10) % 10), DigitChar(n % 10)>>

RECURSIVE UsizeToString(_)
UsizeToString(n) ==
    IF n < 10 THEN <<DigitChar(n)>>
    ELSE Append(UsizeToString(n \div 10), DigitChar(n % 10))

(***************************************************************************)
(* String::deserialize and Vec<String>::deserialize on a JSON value        *)
(***************************************************************************)
\* variant of StringDeserialize that also takes a JSON number, as its digits
StringDeserializeCoercing(j) ==
    IF j.kind = "string" THEN Ok(j.text)
    ELSE IF j.kind = "number" THEN Ok(UsizeToString(j.n))
    ELSE Err("invalid type: expected a string")

StringDeserialize(j) ==
    IF j.kind = "string" THEN Ok(j.text) ELSE Err("invalid type: expected a string")

\* bool::deserialize on a JSON value
BoolDeserialize(j) ==
    IF j.kind = "bool" THEN Ok(j.b) ELSE Err("invalid type: expected a boolean")

VecStringDeserialize(j) ==
    IF j.kind # "array" THEN Err("invalid type: expected a sequence")
    ELSE IF \E i \in 1..Len(j.items) : j.items[i].kind # "string"
         THEN Err("invalid type: expected a string")
    ELSE Ok([i \in 1..Len(j.items) |-> j.items[i].text])

(***************************************************************************)
(* convert::number_like_string                                             *)
(***************************************************************************)
\* Result::unwrap()
Unwrap(r) == IF IsOk(r) THEN r ELSE Panic("called Result::unwrap() on an Err value")

number_like_string_Deserialize(j) ==
    AndThen(StringDeserialize(j), LAMBDA number : Unwrap(ParseUsize(number)))

number_like_string_Serialize(n) == JStr(UsizeToString(n))

(***************************************************************************)
(* convert::indices                                                        *)
(***************************************************************************)
\* variant of indices_Deserialize that parses the elements before it looks
\* at the length
indices_DeserializeParseFirst(j) ==
    AndThen(VecStringDeserialize(j), LAMBDA seq :
        IF \E i \in 1..Len(seq) : ~IsOk(ParseUsize(seq[i]))
        THEN Panic("called Result::unwrap() on an Err value")
        ELSE IF Len(seq) # 2 THEN Err("Expected a sequence of length 2")
        ELSE Ok(<<ParseUsize(seq[1]).val, ParseUsize(seq[2]).val>>))

indices_Deserialize(j) ==
    AndThen(VecStringDeserialize(j), LAMBDA seq :
        IF Len(seq) # 2 THEN Err("Expected a sequence of length 2")
        ELSE AndThen(Unwrap(ParseUsize(seq[1])), LAMBDA p0 :
             AndThen(Unwrap(ParseUsize(seq[2])), LAMBDA p1 : Ok(<<p0, p1>>))))

indices_Serialize(indices) ==
    JArr(<<JStr(UsizeToString(indices[1])), JStr(UsizeToString(indices[2]))>>)

(***************************************************************************)
(* chrono: calendar arithmetic of NaiveDate (proleptic Gregorian).         *)
(***************************************************************************)
None == <<>>
Some(v) == <<v>>
IsSome(o) == o # <<>>
Get(o) == o[1]

IsLeapYear(y) == (y % 4 = 0 /\ y % 100 # 0) \/ y % 400 = 0

DaysInMonth(y, m) ==
    IF m = 2 THEN (IF IsLeapYear(y) THEN 29 ELSE 28)
    ELSE IF m \in {4, 6, 9, 11} THEN 30 ELSE 31

\* days since 1970-01-01
DaysFromCivil(y, m, d) ==
    LET yy == IF m <= 2 THEN y - 1 ELSE y
        era == yy \div 400
        yoe == yy - era * 400
        mp == (m + 9) % 12
        doy == (153 * mp + 2) \div 5 + d - 1
        doe == yoe * 365 + yoe \div 4 - yoe \div 100 + doy
    IN era * 146097 + doe - 719468

CivilFromDays(z0) ==
    LET z == z0 + 719468
        era == z \div 146097
        doe == z - era * 146097
        yoe == (doe - doe \div 1460 + doe \div 36524 - doe \div 146096) \div 365
        doy == doe - (365 * yoe + yoe \div 4 - yoe \div 100)
        mp == (5 * doy + 2) \div 153
        d == doy - (153 * mp + 2) \div 5 + 1
        m == IF mp < 10 THEN mp + 3 ELSE mp - 9
        y == yoe + era * 400 + (IF m <= 2 THEN 1 ELSE 0)
    IN [year |-> y, month |-> m, day |-> d]

\* 1 = Monday .. 7 = Sunday
WeekdayOf(y, m, d) == ((DaysFromCivil(y, m, d) + 3) % 7) + 1

(***************************************************************************)
(* chrono::format: names, scanning helpers.                                *)
(***************************************************************************)
UpperCase == <<"A", "B", "C", "D", "E", "F", "G", "H", "I", "J", "K", "L", "M",
               "N", "O", "P", "Q", "R", "S", "T", "U", "V", "W", "X", "Y", "Z">>
LowerCase == <<"a", "b", "c", "d", "e", "f", "g", "h", "i", "j", "k", "l", "m",
               "n", "o", "p", "q", "r", "s", "t", "u", "v", "w", "x", "y", "z">>
ToLower(c) ==
    IF \E i \in 1..26 : UpperCase[i] = c
    THEN LowerCase[CHOOSE i \in 1..26 : UpperCase[i] = c]
    ELSE c
LowerSeq(s) == [i \in 1..Len(s) |-> ToLower(s[i])]

ShortWeekdays ==
    << <<"M", "o", "n">>, <<"T", "u", "e">>, <<"W", "e", "d">>, <<"T", "h", "u">>,
       <<"F", "r", "i">>, <<"S", "a", "t">>, <<"S", "u", "n">> >>
LongWeekdaySuffixes ==
    << <<"d", "a", "y">>, <<"s", "d", "a", "y">>, <<"n", "e", "s", "d", "a", "y">>,
       <<"r", "s", "d", "a", "y">>, <<"d", "a", "y">>, <<"u", "r", "d", "a", "y">>,
       <<"d", "a", "y">> >>
ShortMonths ==
    << <<"J", "a", "n">>, <<"F", "e", "b">>, <<"M", "a", "r">>, <<"A", "p", "r">>,
       <<"M", "a", "y">>, <<"J", "u", "n">>, <<"J", "u", "l">>, <<"A", "u", "g">>,
       <<"S", "e", "p">>, <<"O", "c", "t">>, <<"N", "o", "v">>, <<"D", "e", "c">> >>
LongMonthSuffixes ==
    << <<"u", "a", "r", "y">>, <<"r", "u", "a", "r", "y">>, <<"c", "h">>, <<"i", "l">>,
       <<>>, <<"e">>, <<"y">>, <<"u", "s", "t">>, <<"t", "e", "m", "b", "e", "r">>,
       <<"o", "b", "e", "r">>, <<"e", "m", "b", "e", "r">>, <<"e", "m", "b", "e", "r">> >>

IsSpace(c) == c \in {" ", "\t", "\n"}

RECURSIVE TrimStart(_)
TrimStart(s) == IF s # <<>> /\ IsSpace(Head(s)) THEN TrimStart(Tail(s)) ELSE s

\* number of leading digits of s, at most max
RECURSIVE LeadingDigits(_, _)
LeadingDigits(s, max) ==
    IF max = 0 \/ s = <<>> \/ Head(s) \notin Digits THEN 0
    ELSE 1 + LeadingDigits(Tail(s), max - 1)

RECURSIVE DigitsValue(_, _)
DigitsValue(s, acc) ==
    IF s = <<>> THEN acc ELSE DigitsValue(Tail(s), acc * 10 + DigitVal(Head(s)))

\* scan::number: min..max digits; Ok([rest, n]) or an error
ScanNumber(s, min, max) ==
    LET k == LeadingDigits(s, max)
    IN IF k < min THEN (IF s = <<>> THEN Err("TOO_SHORT") ELSE Err("INVALID"))
       ELSE Ok([rest |-> Drop(s, k), n |-> DigitsValue(Take(s, k), 0)])

\* scan::short_or_long_weekday / scan::short_or_long_month0 over a table of
\* three-letter names and the suffixes of the long names, ignoring case
ScanShortOrLong(s, shorts, suffixes) ==
    IF Len(s) < 3 THEN Err("TOO_SHORT")
    ELSE LET head == LowerSeq(Take(s, 3))
             hits == {i \in 1..Len(shorts) : LowerSeq(shorts[i]) = head}
         IN IF hits = {} THEN Err("INVALID")
            ELSE LET i == CHOOSE h \in hits : TRUE
                     rest == Drop(s, 3)
                     suffix == suffixes[i]
                     long == /\ suffix # <<>>
                             /\ Len(rest) >= Len(suffix)
                             /\ LowerSeq(Take(rest, Len(suffix))) = suffix
                 IN Ok([rest |-> IF long THEN Drop(rest, Len(suffix)) ELSE rest,
                        n |-> i])

RECURSIVE TrimColonOrSpace(_)
TrimColonOrSpace(s) ==
    IF s # <<>> /\ (Head(s) = ":" \/ IsSpace(Head(s)))
    THEN TrimColonOrSpace(Tail(s)) ELSE s

\* scan::timezone_offset for %z: sign, two hour digits, optional colon, two
\* minute digits; the offset east of UTC in minutes
ScanTimezoneOffset(s) ==
    IF s = <<>> THEN Err("TOO_SHORT")
    ELSE IF Head(s) \notin {"+", "-"} THEN Err("INVALID")
    ELSE LET negative == Head(s) = "-"
             s1 == Tail(s)
         IN IF Len(s1) < 2 THEN Err("TOO_SHORT")
            ELSE IF s1[1] \notin Digits \/ s1[2] \notin Digits THEN Err("INVALID")
            ELSE LET hours == DigitVal(s1[1]) * 10 + DigitVal(s1[2])
                     s2 == TrimColonOrSpace(Drop(s1, 2))
                 IN IF Len(s2) < 2 THEN Err("TOO_SHORT")
                    ELSE IF s2[1] \notin Digits \/ s2[2] \notin Digits THEN Err("INVALID")
                    ELSE IF DigitVal(s2[1]) >= 6 THEN Err("OUT_OF_RANGE")
                    ELSE LET minutes == DigitVal(s2[1]) * 10 + DigitVal(s2[2])
                             total == hours * 60 + minutes
                         IN Ok([rest |-> Drop(s2, 2),
                                n |-> IF negative THEN -total ELSE total])

(***************************************************************************)
(* chrono::format: the items of a format string, and Parsed.               *)
(***************************************************************************)
Lit(c) == [item |-> "Literal", f |-> c]
Space == [item |-> "Space", f |-> " "]
Num(f) == [item |-> "Numeric", f |-> f]
Fixed(f) == [item |-> "Fixed", f |-> f]

\* "%a %b %d %T %z %Y"
created_at_FORMAT ==
    <<Fixed("ShortWeekdayName"), Space, Fixed("ShortMonthName"), Space, Num("Day"), Space,
      Num("Hour"), Lit(":"), Num("Minute"), Lit(":"), Num("Second"), Space,
      Fixed("TimezoneOffset"), Space, Num("Year")>>

\* variant of date_time_iso_8601_FORMAT: "%FT%T%z", no fraction and a numeric
\* offset
date_time_FORMAT_WithOffset ==
    <<Num("Year"), Lit("-"), Num("Month"), Lit("-"), Num("Day"), Lit("T"),
      Num("Hour"), Lit(":"), Num("Minute"), Lit(":"), Num("Second"),
      Fixed("TimezoneOffset")>>

\* "%FT%T.%3fZ"
date_time_iso_8601_FORMAT ==
    <<Num("Year"), Lit("-"), Num("Month"), Lit("-"), Num("Day"), Lit("T"),
      Num("Hour"), Lit(":"), Num("Minute"), Lit(":"), Num("Second"), Lit("."),
      Fixed("Nanosecond3NoDot"), Lit("Z")>>

\* "%Y.%m.%d"
date_year_month_day_FORMAT ==
    <<Num("Year"), Lit("."), Num("Month"), Lit("."), Num("Day")>>

\* "%F %T"
date_year_month_day_hour_minute_second_FORMAT ==
    <<Num("Year"), Lit("-"), Num("Month"), Lit("-"), Num("Day"), Space,
      Num("Hour"), Lit(":"), Num("Minute"), Lit(":"), Num("Second")>>

EmptyParsed ==
    [year |-> None, month |-> None, day |-> None, weekday |-> None, hour |-> None,
     minute |-> None, second |-> None, milli |-> None, offset |-> None]

\* variant of FieldInRange that admits any hour
FieldInRangeAnyHour(f, n) ==
    CASE f = "Month" -> n \in 1..12
      [] f = "Day" -> n \in 1..31
      [] f = "Minute" -> n \in 0..59
      [] f = "Second" -> n \in 0..60
      [] OTHER -> TRUE

\* Parsed::set_*: the range each field admits
FieldInRange(f, n) ==
    CASE f = "Year" -> TRUE
      [] f = "Month" -> n \in 1..12
      [] f = "Day" -> n \in 1..31
      [] f = "Hour" -> n \in 0..23
      [] f = "Minute" -> n \in 0..59
      [] f = "Second" -> n \in 0..60

SetField(parsed, f, n) ==
    CASE f = "Year" -> [parsed EXCEPT !.year = Some(n)]
      [] f = "Month" -> [parsed EXCEPT !.month = Some(n)]
      [] f = "Day" -> [parsed EXCEPT !.day = Some(n)]
      [] f = "Hour" -> [parsed EXCEPT !.hour = Some(n)]
      [] f = "Minute" -> [parsed EXCEPT !.minute = Some(n)]
      [] f = "Second" -> [parsed EXCEPT !.second = Some(n)]

\* a numeric item: %Y takes a sign and then any number of digits, or up to
\* four digits without one; the other fields take one or two digits
ScanNumericTrimmed(f, s) ==
    IF f = "Year" /\ s # <<>> /\ Head(s) \in {"+", "-"}
    THEN AndThen(ScanNumber(Tail(s), 1, Len(s)), LAMBDA v :
             Ok([rest |-> v.rest, n |-> IF Head(s) = "-" THEN -v.n ELSE v.n]))
    ELSE ScanNumber(s, 1, IF f = "Year" THEN 4 ELSE 2)

ScanNumeric(f, s) == ScanNumericTrimmed(f, TrimStart(s))

\* one item of the format consumed from s: Ok([rest, parsed]) or an error
ParseItem(it, s, parsed) ==
    CASE it.item = "Literal" ->
           IF s = <<>> THEN Err("TOO_SHORT")
           ELSE IF Head(s) # it.f THEN Err("INVALID")
           ELSE Ok([rest |-> Tail(s), parsed |-> parsed])
      [] it.item = "Space" -> Ok([rest |-> TrimStart(s), parsed |-> parsed])
      [] it.item = "Numeric" ->
           AndThen(ScanNumeric(it.f, s), LAMBDA v :
               IF ~FieldInRange(it.f, v.n) THEN Err("OUT_OF_RANGE")
               ELSE Ok([rest |-> v.rest, parsed |-> SetField(parsed, it.f, v.n)]))
      [] it.item = "Fixed" /\ it.f = "ShortWeekdayName" ->
           AndThen(ScanShortOrLong(s, ShortWeekdays, LongWeekdaySuffixes), LAMBDA v :
               Ok([rest |-> v.rest, parsed |-> [parsed EXCEPT !.weekday = Some(v.n)]]))
      [] it.item = "Fixed" /\ it.f = "ShortMonthName" ->
           AndThen(ScanShortOrLong(s, ShortMonths, LongMonthSuffixes), LAMBDA v :
               Ok([rest |-> v.rest, parsed |-> [parsed EXCEPT !.month = Some(v.n)]]))
      [] it.item = "Fixed" /\ it.f = "TimezoneOffset" ->
           AndThen(ScanTimezoneOffset(TrimStart(s)), LAMBDA v :
               Ok([rest |-> v.rest, parsed |-> [parsed EXCEPT !.offset = Some(v.n)]]))
      [] it.item = "Fixed" /\ it.f = "Nanosecond3NoDot" ->
           IF Len(s) < 3 THEN Err("TOO_SHORT")
           ELSE AndThen(ScanNumber(s, 3, 3), LAMBDA v :
                    Ok([rest |-> v.rest, parsed |-> [parsed EXCEPT !.milli = Some(v.n)]]))

\* format::parse: every item in turn, and nothing may be left over
RECURSIVE ParseInternal(_, _, _)
ParseInternal(items, s, parsed) ==
    IF items = <<>> THEN (IF s # <<>> THEN Err("TOO_LONG") ELSE Ok(parsed))
    ELSE AndThen(ParseItem(Head(items), s, parsed), LAMBDA v :
             ParseInternal(Tail(items), v.rest, v.parsed))

(***************************************************************************)
(* chrono: Parsed::to_naive_date / to_naive_time / to_datetime.            *)
(***************************************************************************)
ToNaiveDate(p) ==
    IF ~IsSome(p.year) \/ ~IsSome(p.month) \/ ~IsSome(p.day) THEN Err("NOT_ENOUGH")
    ELSE LET y == Get(p.year)
             m == Get(p.month)
             d == Get(p.day)
         IN IF d > DaysInMonth(y, m) THEN Err("OUT_OF_RANGE")
            ELSE IF IsSome(p.weekday) /\ Get(p.weekday) # WeekdayOf(y, m, d)
                 THEN Err("IMPOSSIBLE")
            ELSE Ok([year |-> y, month |-> m, day |-> d])

\* variant of ToNaiveTime that keeps the hour and the minute only
ToNaiveTimeOfMinute(p) ==
    IF ~IsSome(p.hour) \/ ~IsSome(p.minute) THEN Err("NOT_ENOUGH")
    ELSE Ok([hour |-> Get(p.hour), minute |-> Get(p.minute), second |-> 0, milli |-> 0])

\* a second of 60 is kept as a leap second of the minute
ToNaiveTime(p) ==
    IF ~IsSome(p.hour) \/ ~IsSome(p.minute) THEN Err("NOT_ENOUGH")
    ELSE Ok([hour |-> Get(p.hour), minute |-> Get(p.minute),
             second |-> IF IsSome(p.second) THEN Get(p.second) ELSE 0,
             milli |-> IF IsSome(p.milli) THEN Get(p.milli) ELSE 0])

DateTimeOf(date, time) ==
    [year |-> date.year, month |-> date.month, day |-> date.day,
     hour |-> time.hour, minute |-> time.minute, second |-> time.second,
     milli |-> time.milli]

Midnight == [hour |-> 0, minute |-> 0, second |-> 0, milli |-> 0]

ToNaiveDateTime(p) ==
    AndThen(ToNaiveDate(p), LAMBDA date :
        AndThen(ToNaiveTime(p), LAMBDA time : Ok(DateTimeOf(date, time))))

\* the local date-time dt at offset minutes east of UTC, as a UTC date-time
\* the time of day mins minutes after midnight of day number days
AtMinuteOfDay(days, mins, dt) ==
    DateTimeOf(CivilFromDays(days),
               [hour |-> mins \div 60, minute |-> mins % 60,
                second |-> dt.second, milli |-> dt.milli])

\* variant of LocalToUtc that takes the local date-time as UTC
LocalKept(dt, offset) == dt

LocalToUtc(dt, offset) ==
    LET mins == dt.hour * 60 + dt.minute - offset
    IN AtMinuteOfDay(DaysFromCivil(dt.year, dt.month, dt.day) + mins \div 1440,
                     mins % 1440, dt)

\* Parsed::to_datetime: needs an offset of less than a day
ToDateTime(p) ==
    IF ~IsSome(p.offset) THEN Err("NOT_ENOUGH")
    ELSE AndThen(ToNaiveDateTime(p), LAMBDA local :
             IF Get(p.offset) <= -1440 \/ Get(p.offset) >= 1440 THEN Err("OUT_OF_RANGE")
             ELSE Ok(LocalToUtc(local, Get(p.offset))))

(***************************************************************************)
(* chrono: DateTime<Utc>::format                                           *)
(***************************************************************************)
\* variant of Pad that pads nothing
RECURSIVE Unpadded(_, _)
Unpadded(n, width) ==
    IF n < 10 THEN <<DigitChar(n)>>
    ELSE Append(Unpadded(n \div 10, width), DigitChar(n % 10))

\* n in decimal, zero-padded to at least width digits
RECURSIVE Pad(_, _)
Pad(n, width) ==
    IF width <= 1 /\ n < 10 THEN <<DigitChar(n)>>
    ELSE Append(Pad(n \div 10, width - 1), DigitChar(n % 10))

\* variant of FormatYear that always writes the sign
FormatYearSigned(y) == IF y < 0 THEN <<"-">> \o Pad(-y, 4) ELSE <<"+">> \o Pad(y, 4)

FormatYear(y) ==
    IF y \in 0..9999 THEN Pad(y, 4)
    ELSE IF y < 0 THEN <<"-">> \o Pad(-y, 4)
    ELSE <<"+">> \o Pad(y, 4)

FormatItem(it, dt) ==
    CASE it.item = "Literal" -> <<it.f>>
      [] it.item = "Space" -> <<it.f>>
      [] it.item = "Numeric" /\ it.f = "Year" -> FormatYear(dt.year)
      [] it.item = "Numeric" /\ it.f = "Month" -> Pad(dt.month, 2)
      [] it.item = "Numeric" /\ it.f = "Day" -> Pad(dt.day, 2)
      [] it.item = "Numeric" /\ it.f = "Hour" -> Pad(dt.hour, 2)
      [] it.item = "Numeric" /\ it.f = "Minute" -> Pad(dt.minute, 2)
      [] it.item = "Numeric" /\ it.f = "Second" -> Pad(dt.second, 2)
      [] it.item = "Fixed" /\ it.f = "ShortWeekdayName" ->
           ShortWeekdays[WeekdayOf(dt.year, dt.month, dt.day)]
      [] it.item = "Fixed" /\ it.f = "ShortMonthName" -> ShortMonths[dt.month]
      [] it.item = "Fixed" /\ it.f = "TimezoneOffset" -> <<"+", "0", "0", "0", "0">>
      [] it.item = "Fixed" /\ it.f = "Nanosecond3NoDot" -> Pad(dt.milli, 3)

RECURSIVE FormatItems(_, _)
FormatItems(items, dt) ==
    IF items = <<>> THEN <<>>
    ELSE FormatItem(Head(items), dt) \o FormatItems(Tail(items), dt)

(***************************************************************************)
(* convert::created_at                                                     *)
(***************************************************************************)
created_at_Deserialize(j) ==
    AndThen(StringDeserialize(j), LAMBDA value :
        AndThen(ParseInternal(created_at_FORMAT, value, EmptyParsed), ToDateTime))

created_at_Serialize(date) == JStr(FormatItems(created_at_FORMAT, date))

(***************************************************************************)
(* convert::date_time_iso_8601                                             *)
(***************************************************************************)
date_time_iso_8601_Deserialize(j) ==
    AndThen(StringDeserialize(j), LAMBDA s :
        AndThen(ParseInternal(date_time_iso_8601_FORMAT, s, EmptyParsed), ToNaiveDateTime))

\* variant of the serializer that writes the offset, +0000, in place of Z
date_time_iso_8601_SerializeWithOffset(date) ==
    JStr(FormatItems(date_time_FORMAT_WithOffset, date))

date_time_iso_8601_Serialize(date) == JStr(FormatItems(date_time_iso_8601_FORMAT, date))

(***************************************************************************)
(* convert::date_year_month_day                                            *)
(***************************************************************************)
date_year_month_day_Deserialize(j) ==
    AndThen(StringDeserialize(j), LAMBDA s :
        AndThen(ParseInternal(date_year_month_day_FORMAT, s, EmptyParsed), LAMBDA parsed :
            AndThen(ToNaiveDate(parsed), LAMBDA dt : Ok(DateTimeOf(dt, Midnight)))))

date_year_month_day_Serialize(date) ==
    JStr(FormatItems(date_year_month_day_FORMAT, date))

(***************************************************************************)
(* convert::date_year_month_day_hour_minute_second                         *)
(***************************************************************************)
\* variant of the deserializer that falls back to the ISO 8601 format when
\* its own format does not match
date_year_month_day_hour_minute_second_DeserializeWithFallback(j) ==
    LET own == AndThen(StringDeserialize(j), LAMBDA s :
                   AndThen(ParseInternal(date_year_month_day_hour_minute_second_FORMAT, s,
                                         EmptyParsed),
                           ToNaiveDateTime))
    IN IF IsOk(own) THEN own ELSE date_time_iso_8601_Deserialize(j)

date_year_month_day_hour_minute_second_Deserialize(j) ==
    AndThen(StringDeserialize(j), LAMBDA s :
        AndThen(ParseInternal(date_year_month_day_hour_minute_second_FORMAT, s, EmptyParsed),
                ToNaiveDateTime))

date_year_month_day_hour_minute_second_Serialize(date) ==
    JStr(FormatItems(date_year_month_day_hour_minute_second_FORMAT, date))

(***************************************************************************)
(* serde: the shapes #[derive(Deserialize, Serialize)] is applied to.      *)
(* A struct lists its fields in declaration order under their JSON keys;   *)
(* an enum lists its newtype variants under their JSON keys.               *)
(***************************************************************************)
TString == [k |-> "String"]
TBool == [k |-> "Bool"]
TWith(c) == [k |-> "With", codec |-> c]
TVec(e) == [k |-> "Vec", elem |-> e]
TOption(e) == [k |-> "Option", elem |-> e]
TStruct(fields) == [k |-> "Struct", fields |-> fields]
TEnum(variants) == [k |-> "Enum", variants |-> variants]
Field(key, ty) == [key |-> key, ty |-> ty]

\* #[serde(with = "convert::...")]
WithDeserialize(c, j) ==
    CASE c = "created_at" -> created_at_Deserialize(j)
      [] c = "date_time_iso_8601" -> date_time_iso_8601_Deserialize(j)
      [] c = "date_year_month_day" -> date_year_month_day_Deserialize(j)
      [] c = "date_year_month_day_hour_minute_second" ->
           date_year_month_day_hour_minute_second_Deserialize(j)
      [] c = "number_like_string" -> number_like_string_Deserialize(j)
      [] c = "indices" -> indices_Deserialize(j)

WithSerialize(c, v) ==
    CASE c = "created_at" -> created_at_Serialize(v)
      [] c = "date_time_iso_8601" -> date_time_iso_8601_Serialize(v)
      [] c = "date_year_month_day" -> date_year_month_day_Serialize(v)
      [] c = "date_year_month_day_hour_minute_second" ->
           date_year_month_day_hour_minute_second_Serialize(v)
      [] c = "number_like_string" -> number_like_string_Serialize(v)
      [] c = "indices" -> indices_Serialize(v)

FieldIndex(fields, key) ==
    IF \E i \in 1..Len(fields) : fields[i].key = key
    THEN Some(CHOOSE i \in 1..Len(fields) : fields[i].key = key)
    ELSE None

\* the struct built from the slots the visitor filled: a field left empty
\* is an error unless it is an Option, which is then None
StructFromSlots(fields, slots) ==
    IF \E i \in 1..Len(fields) : ~IsSome(slots[i]) /\ fields[i].ty.k # "Option"
    THEN Err("missing field")
    ELSE Ok([key \in {fields[i].key : i \in 1..Len(fields)} |->
              LET i == Get(FieldIndex(fields, key))
              IN IF IsSome(slots[i]) THEN Get(slots[i]) ELSE None])

\* the first result in order that is not Ok, if any
FirstFailure(results) ==
    IF \E i \in 1..Len(results) : ~IsOk(results[i])
    THEN Some(results[CHOOSE i \in 1..Len(results) :
                        /\ ~IsOk(results[i])
                        /\ \A h \in 1..(i - 1) : IsOk(results[h])])
    ELSE None

\* variant of VisitSeq that leaves out the elements that failed
VisitSeqLenient(results) ==
    LET kept == SelectSeq(results, IsOk)
    IN Ok([i \in 1..Len(kept) |-> kept[i].val])

\* variant of VisitSeq that keeps one of each repeated element
VisitSeqDeduplicated(results) ==
    IF IsSome(FirstFailure(results)) THEN Get(FirstFailure(results))
    ELSE LET first == SelectSeq([i \in 1..Len(results) |-> i],
                                LAMBDA i : \A h \in 1..(i - 1) : results[h] # results[i])
         IN Ok([i \in 1..Len(first) |-> results[first[i]].val])

\* Vec<T>: the elements in order; the first failure ends the whole decode
VisitSeq(results) ==
    IF IsSome(FirstFailure(results)) THEN Get(FirstFailure(results))
    ELSE Ok([i \in 1..Len(results) |-> results[i].val])

\* variant of VisitMap that takes the keys in declaration order only
VisitMapInOrder(fields, members, results) ==
    IF \E g, h \in 1..Len(members) :
          /\ g < h
          /\ IsSome(FieldIndex(fields, members[g].key))
          /\ IsSome(FieldIndex(fields, members[h].key))
          /\ Get(FieldIndex(fields, members[g].key)) > Get(FieldIndex(fields, members[h].key))
    THEN Err("unexpected key order")
    ELSE IF IsSome(FirstFailure(results)) THEN Get(FirstFailure(results))
    ELSE LET At(i) == {h \in 1..Len(members) : members[h].key = fields[i].key}
         IN StructFromSlots(fields,
                [i \in 1..Len(fields) |->
                    IF At(i) = {} THEN None
                    ELSE Some(results[CHOOSE h \in At(i) : TRUE].val)])

\* a struct from a JSON object, given what each member in input order came
\* to: a key that names no field is skipped with its value (Ok), a field met
\* a second time is an error, any other member is decoded as its field
VisitMap(fields, members, results) ==
    IF IsSome(FirstFailure(results)) THEN Get(FirstFailure(results))
    ELSE LET At(i) == {h \in 1..Len(members) : members[h].key = fields[i].key}
         IN StructFromSlots(fields,
                [i \in 1..Len(fields) |->
                    IF At(i) = {} THEN None
                    ELSE Some(results[CHOOSE h \in At(i) : TRUE].val)])

\* a struct from a JSON array: the fields by position, all of them
VisitStructSeq(fields, items, results) ==
    IF IsSome(FirstFailure(results)) THEN Get(FirstFailure(results))
    ELSE IF Len(items) < Len(fields) THEN Err("invalid length")
    ELSE IF Len(items) > Len(fields) THEN Err("trailing characters")
    ELSE StructFromSlots(fields, [i \in 1..Len(fields) |-> Some(results[i].val)])

\* variant of IgnoredAny for #[serde(deny_unknown_fields)]
DenyUnknownField(j) == Err("unknown field")

\* serde::de::IgnoredAny: the value of a key that names no field is read
\* and dropped
IgnoredAny(j) == Ok(None)

\* variant of VariantIndex that takes the first variant whatever the tag
VariantIndexByPriority(variants, tag) == Some(1)

\* variant of VariantIndex that takes the first variant for a tag it does
\* not know
VariantIndexOrFirst(variants, tag) ==
    IF IsSome(FieldIndex(variants, tag)) THEN FieldIndex(variants, tag) ELSE Some(1)

\* the variant an externally tagged enum is decoded as: the one its tag names
VariantIndex(variants, tag) == FieldIndex(variants, tag)

\* variant of OptionDeserialize that has no place for null: the value is
\* always decoded as the inner type
OptionDeserializeNullRejected(j, inner) == AndThen(inner, LAMBDA v : Ok(Some(v)))

\* Option<T>: null is None; any other value is Some of what the inner type
\* decodes it to
OptionDeserialize(j, inner) ==
    IF j.kind = "null" THEN Ok(None) ELSE AndThen(inner, LAMBDA v : Ok(Some(v)))

\* the tag of an externally tagged enum: the key of the first member
EnumTag(j) ==
    IF j.kind = "string" THEN Err("unknown variant or invalid type: unit variant")
    ELSE IF j.kind # "object" THEN Err("expected value")
    ELSE IF j.members = <<>> THEN Err("expected value")
    ELSE Ok(Head(j.members))

\* variant of EnumEnd that lets further members follow
EnumEndLenient(j, variant, content) == Ok([variant |-> variant, content |-> content])

\* after the variant's content the object must end
EnumEnd(j, variant, content) ==
    IF Len(j.members) > 1 THEN Err("expected value")
    ELSE Ok([variant |-> variant, content |-> content])

RECURSIVE Deserialize(_, _)
Deserialize(ty, j) ==
    CASE ty.k = "String" -> StringDeserialize(j)
      [] ty.k = "Bool" -> BoolDeserialize(j)
      [] ty.k = "With" -> WithDeserialize(ty.codec, j)
      [] ty.k = "Vec" ->
           IF j.kind # "array" THEN Err("invalid type: expected a sequence")
           ELSE VisitSeq([i \in 1..Len(j.items) |-> Deserialize(ty.elem, j.items[i])])
      [] ty.k = "Option" -> OptionDeserialize(j, Deserialize(ty.elem, j))
      [] ty.k = "Struct" ->
           IF j.kind = "object"
           THEN VisitMap(ty.fields, j.members,
                    [h \in 1..Len(j.members) |->
                        LET at == FieldIndex(ty.fields, j.members[h].key)
                        IN IF ~IsSome(at) THEN IgnoredAny(j.members[h].val)
                           ELSE IF \E g \in 1..(h - 1) : j.members[g].key = j.members[h].key
                                THEN Err("duplicate field")
                           ELSE Deserialize(ty.fields[Get(at)].ty, j.members[h].val)])
           ELSE IF j.kind = "array"
           THEN VisitStructSeq(ty.fields, j.items,
                    [i \in 1..(IF Len(j.items) < Len(ty.fields)
                               THEN Len(j.items) ELSE Len(ty.fields)) |->
                        Deserialize(ty.fields[i].ty, j.items[i])])
           ELSE Err("invalid type: expected a struct")
      [] ty.k = "Enum" ->
           \* an externally tagged enum: an object of exactly one member whose
           \* key names the variant and whose value is that variant's content
           AndThen(EnumTag(j), LAMBDA m :
               LET at == VariantIndex(ty.variants, m.key)
               IN IF ~IsSome(at) THEN Err("unknown variant")
                  ELSE AndThen(Deserialize(ty.variants[Get(at)].ty, m.val), LAMBDA v :
                           EnumEnd(j, ty.variants[Get(at)].key, v)))

\* variant of SerializeFields that writes the members last field first
SerializeFieldsReversed(fields, v, encoded) ==
    [h \in 1..Len(fields) |->
        Member(fields[Len(fields) + 1 - h].key, encoded[Len(fields) + 1 - h])]

\* variant of SerializeFields without skip_serializing_if: a None field is
\* written as null
SerializeFieldsWithNull(fields, v, encoded) ==
    [h \in 1..Len(fields) |-> Member(fields[h].key, encoded[h])]

\* the members of a struct in declaration order; a None field is skipped
\* (every Option field carries skip_serializing_if = "Option::is_none")
SerializeFields(fields, v, encoded) ==
    LET Kept(i) == ~(fields[i].ty.k = "Option" /\ v[fields[i].key] = None)
        kept == SelectSeq([i \in 1..Len(fields) |-> i], Kept)
    IN [h \in 1..Len(kept) |-> Member(fields[kept[h]].key, encoded[kept[h]])]

RECURSIVE Serialize(_, _)
Serialize(ty, v) ==
    CASE ty.k = "String" -> JStr(v)
      [] ty.k = "Bool" -> JBool(v)
      [] ty.k = "With" -> WithSerialize(ty.codec, v)
      [] ty.k = "Vec" -> JArr([i \in 1..Len(v) |-> Serialize(ty.elem, v[i])])
      [] ty.k = "Option" -> IF v = None THEN JNull ELSE Serialize(ty.elem, Get(v))
      [] ty.k = "Struct" ->
           JObj(SerializeFields(ty.fields, v,
                    [i \in 1..Len(ty.fields) |->
                        Serialize(ty.fields[i].ty, v[ty.fields[i].key])]))
      [] ty.k = "Enum" ->
           LET at == Get(FieldIndex(ty.variants, v.variant))
           IN JObj(<<Member(v.variant, Serialize(ty.variants[at].ty, v.content))>>)

(***************************************************************************)
(* structs::direct_message, structs::direct_messages_group                 *)
(***************************************************************************)
direct_message_MessageCreateReaction ==
    TStruct(<<Field("senderId", TString), Field("reactionKey", TString),
              Field("eventId", TString), Field("createdAt", TWith("date_time_iso_8601"))>>)

direct_message_MessageCreateUrl ==
    TStruct(<<Field("url", TString), Field("expanded", TString), Field("display", TString)>>)

direct_message_ParticipantsLeave ==
    TStruct(<<Field("userIds", TVec(TString)),
              Field("createdAt", TWith("date_time_iso_8601"))>>)

direct_message_JoinConversation ==
    TStruct(<<Field("initiatingUserId", TString),
              Field("participantsSnapshot", TVec(TString)),
              Field("createdAt", TWith("date_time_iso_8601"))>>)

direct_messages_group_MessageCreate ==
    TStruct(<<Field("reactions", TVec(direct_message_MessageCreateReaction)),
              Field("urls", TVec(direct_message_MessageCreateUrl)),
              Field("text", TString),
              Field("mediaUrls", TVec(TString)),
              Field("senderId", TString),
              Field("id", TString),
              Field("createdAt", TWith("date_time_iso_8601"))>>)

direct_messages_group_Message ==
    TEnum(<<Field("messageCreate", direct_messages_group_MessageCreate),
            Field("participantsLeave", direct_message_ParticipantsLeave),
            Field("joinConversation", direct_message_JoinConversation)>>)

direct_messages_group_DmConversation ==
    TStruct(<<Field("conversationId", TString),
              Field("messages", TVec(direct_messages_group_Message))>>)

direct_messages_group_DmConversationObject ==
    TStruct(<<Field("dmConversation", direct_messages_group_DmConversation)>>)

(***************************************************************************)
(* structs::direct_messages, structs::direct_message_headers               *)
(***************************************************************************)
direct_messages_MessageCreate ==
    TStruct(<<Field("recipientId", TString),
              Field("reactions", TVec(direct_message_MessageCreateReaction)),
              Field("urls", TVec(direct_message_MessageCreateUrl)),
              Field("text", TString),
              Field("mediaUrls", TVec(TString)),
              Field("senderId", TString),
              Field("id", TString),
              Field("createdAt", TWith("date_time_iso_8601"))>>)

\* variant of MessageCreateObject: the enum of the group conversations
direct_messages_MessageOfGroup == direct_messages_group_Message

direct_messages_MessageCreateObject ==
    TStruct(<<Field("messageCreate", direct_messages_MessageCreate)>>)

direct_messages_DMConversation ==
    TStruct(<<Field("conversationId", TString),
              Field("messages", TVec(direct_messages_MessageCreateObject))>>)

direct_message_headers_MessageCreate ==
    TStruct(<<Field("id", TString), Field("senderId", TString),
              Field("recipientId", TString),
              Field("createdAt", TWith("date_time_iso_8601"))>>)

direct_message_headers_MessageCreateObject ==
    TStruct(<<Field("messageCreate", direct_message_headers_MessageCreate)>>)

direct_message_headers_DmConversation ==
    TStruct(<<Field("conversationId", TString),
              Field("messages", TVec(direct_message_headers_MessageCreateObject))>>)

(***************************************************************************)
(* structs::tweets                                                         *)
(***************************************************************************)
tweets_TweetEditInfoInitial ==
    TStruct(<<Field("editTweetIds", TVec(TString)),
              Field("editableUntil", TWith("date_time_iso_8601")),
              Field("editsRemaining", TWith("number_like_string")),
              Field("isEditEligible", TBool)>>)

tweets_TweetEditInfo == TStruct(<<Field("initial", tweets_TweetEditInfoInitial)>>)

tweets_TweetEntitiesEntry ==
    TStruct(<<Field("text", TString), Field("indices", TWith("indices"))>>)

tweets_TweetEntitiesUserMention ==
    TStruct(<<Field("name", TString), Field("screen_name", TString),
              Field("indices", TWith("indices")), Field("id_str", TString),
              Field("id", TString)>>)

tweets_TweetEntitiesUserUrl ==
    TStruct(<<Field("url", TString), Field("expanded_url", TString),
              Field("display_url", TString), Field("indices", TWith("indices"))>>)

tweets_TweetEntities ==
    TStruct(<<Field("hashtags", TVec(tweets_TweetEntitiesEntry)),
              Field("symbols", TVec(tweets_TweetEntitiesEntry)),
              Field("user_mentions", TVec(tweets_TweetEntitiesUserMention)),
              Field("urls", TVec(tweets_TweetEntitiesUserUrl))>>)

tweets_Tweet ==
    TStruct(<<Field("edit_info", tweets_TweetEditInfo),
              Field("retweeted", TBool),
              Field("source", TString),
              Field("entities", tweets_TweetEntities),
              Field("display_text_range", TWith("indices")),
              Field("favorite_count", TWith("number_like_string")),
              Field("in_reply_to_status_id_str", TOption(TString)),
              Field("id_str", TString),
              Field("in_reply_to_user_id", TOption(TString)),
              Field("truncated", TBool),
              Field("retweet_count", TWith("number_like_string")),
              Field("id", TString),
              Field("in_reply_to_status_id", TOption(TString)),
              Field("possibly_sensitive", TOption(TBool)),
              Field("created_at", TWith("created_at")),
              Field("favorited", TBool),
              Field("full_text", TString),
              Field("lang", TString),
              Field("in_reply_to_screen_name", TOption(TString)),
              Field("in_reply_to_user_id_str", TOption(TString))>>)

tweets_TweetObject == TStruct(<<Field("tweet", tweets_Tweet)>>)

(***************************************************************************)
(* structs::tweetdeck                                                      *)
(***************************************************************************)
tweetdeck_DeckColumn ==
    TStruct(<<Field("pathname", TString), Field("title", TOption(TString)),
              Field("query", TOption(TString))>>)

(***************************************************************************)
(* structs::like                                                           *)
(***************************************************************************)
like_Like ==
    TStruct(<<Field("tweetId", TString), Field("fullText", TOption(TString)),
              Field("expandedUrl", TString)>>)

like_LikeObject == TStruct(<<Field("like", like_Like)>>)

(***************************************************************************)
(* Inputs a caller can hand to the numeric codecs.                         *)
(***************************************************************************)
NumAlphabet == {"0", "2", "5", "6", "7", "+", "-", "x"}
NumTexts == SeqsUpTo(NumAlphabet, MaxNumLen)
IdxTexts == {<<"1">>, <<"2">>, <<"0", "0", "7">>, <<"x">>, <<"+", "5">>, <<"9", "9", "9">>}
IdxArrays == SeqsUpTo({JStr(t) : t \in IdxTexts}, MaxIdxLen)
UsizeValues == 0..UsizeMax
IdxValues == {<<a, b>> : a \in {0, 1, 7, 68, UsizeMax}, b \in {0, 2, 7, 41, UsizeMax}}

(***************************************************************************)
(* Inputs a caller can hand to the date/time codecs: texts assembled from  *)
(* well-formed and malformed tokens, and instants.                         *)
(***************************************************************************)
WeekdayTexts == {<<"S", "a", "t">>, <<"T", "u", "e">>, <<"S", "a", "t", "u", "r", "d", "a", "y">>}
MonthNameTexts == {<<"A", "u", "g">>, <<"D", "e", "c">>}
MonthTexts == {<<"0", "8">>, <<"8">>, <<"1", "2">>, <<"1", "3">>}
DayTexts == {<<"1", "2">>, <<"0", "1">>, <<"1">>, <<"3", "1">>, <<"3", "2">>}
HourTexts == {<<"1", "6">>, <<"0", "0">>, <<"2", "3">>, <<"2", "4">>}
MinuteTexts == {<<"1", "0">>, <<"6", "0">>}
SecondTexts == {<<"3", "7">>, <<"7">>, <<"6", "0">>}
MilliTexts == {<<"0", "0", "0">>, <<"0", "6", "8">>, <<"6", "8">>}
OffsetTexts ==
    {<<"+", "0", "0", "0", "0">>, <<"+", "0", "1", "0", "0">>, <<"-", "0", "8", "0", "0">>,
     <<"+", "0", "0", ":", "0", "0">>, <<"Z">>}
ZoneTexts == {<<"Z">>, <<>>}
YearTexts == {<<"2", "0", "2", "3">>, <<"2", "0", "2", "4">>}

CreatedAtText(wd, mon, d, h, mi, s, off, y) ==
    wd \o <<" ">> \o mon \o <<" ">> \o d \o <<" ">> \o h \o <<":">> \o mi \o <<":">> \o s
       \o <<" ">> \o off \o <<" ">> \o y

Iso8601Text(y, mon, d, h, mi, s, ms, z) ==
    y \o <<"-">> \o mon \o <<"-">> \o d \o <<"T">> \o h \o <<":">> \o mi \o <<":">> \o s
      \o <<".">> \o ms \o z

YearMonthDayText(y, mon, d, sep) == y \o <<sep>> \o mon \o <<sep>> \o d

YearMonthDayHourMinuteSecondText(y, mon, d, h, mi, s) ==
    y \o <<"-">> \o mon \o <<"-">> \o d \o <<" ">> \o h \o <<":">> \o mi \o <<":">> \o s

\* malformed texts: a token missing or added, a component that is no number,
\* a month, day or hour out of range (day 29 or 30 in February included)
BadMonthTexts == {<<"0", "2">>, <<"0", "0">>, <<"x", "8">>}
BadDayTexts == {<<"2", "9">>, <<"3", "0">>, <<"0", "0">>, <<"1", "x">>}
BadHourTexts == {<<"1", "6">>, <<"1", "x">>}
BadYearTexts == {<<"2", "0", "2", "3">>, <<"2", "0", "x", "3">>, <<"2", "0", "2", "3", " ", "x">>}
\* s without its last n characters
DropLast(s, n) == SubSeq(s, 1, Len(s) - n)

CreatedAtMalformed ==
    {CreatedAtText(<<"S", "a", "t">>, <<"A", "u", "g">>, d, h, <<"1", "0">>, <<"3", "7">>,
                   <<"+", "0", "0", "0", "0">>, y) :
        d \in {<<"1", "2">>, <<"0", "0">>, <<"1", "x">>}, h \in BadHourTexts, y \in BadYearTexts}
      \cup {DropLast(t, 5) : t \in
               {CreatedAtText(<<"S", "a", "t">>, <<"A", "u", "g">>, <<"1", "2">>, <<"1", "6">>,
                              <<"1", "0">>, <<"3", "7">>, <<"+", "0", "0", "0", "0">>,
                              <<"2", "0", "2", "3">>)}}

Iso8601Malformed ==
    {Iso8601Text(y, mon, d, h, <<"1", "0">>, <<"3", "7">>, <<"0", "0", "0">>, z) :
        y \in YearTexts, mon \in BadMonthTexts, d \in BadDayTexts, h \in BadHourTexts,
        z \in {<<"Z">>, <<"Z", "x">>}}
      \cup {DropLast(Iso8601Text(y, <<"0", "8">>, <<"1", "2">>, <<"1", "6">>, <<"1", "0">>,
                                  <<"3", "7">>, <<"0", "0", "0">>, <<"Z">>), 8) : y \in YearTexts}

YearMonthDayMalformed ==
    {YearMonthDayText(y, mon, d, ".") : y \in BadYearTexts \cup YearTexts, mon \in BadMonthTexts,
                                        d \in BadDayTexts}
      \cup {DropLast(YearMonthDayText(y, <<"0", "8">>, <<"1", "2">>, "."), 3) : y \in YearTexts}
      \cup {YearMonthDayText(y, <<"0", "8">>, <<"1", "2">>, ".") \o <<".", "0", "1">> :
               y \in YearTexts}

YearMonthDayHourMinuteSecondMalformed ==
    {YearMonthDayHourMinuteSecondText(y, mon, d, h, <<"1", "0">>, <<"3", "7">>) :
        y \in YearTexts, mon \in BadMonthTexts, d \in BadDayTexts, h \in BadHourTexts}
      \cup {DropLast(YearMonthDayHourMinuteSecondText(y, <<"0", "8">>, <<"1", "2">>, <<"1", "6">>,
                                                       <<"1", "0">>, <<"3", "7">>), 3) :
               y \in YearTexts}
      \cup {YearMonthDayHourMinuteSecondText(y, <<"0", "8">>, <<"1", "2">>, <<"1", "6">>,
                                              <<"1", "0">>, <<"3", "7">>) \o <<" ", "x">> :
               y \in YearTexts}

\* DateTime<Utc> values: a valid date, a time of day, milliseconds
InstantValues ==
    {v \in [year : {2023, 2024}, month : {2, 8, 12}, day : {1, 12, 29, 31},
            hour : {0, 16, 23}, minute : {0, 10}, second : {0, 37}, milli : {0, 68}] :
        v.day <= DaysInMonth(v.year, v.month)}

(***************************************************************************)
(* Inputs a caller can hand to the direct-message decoders.                *)
(***************************************************************************)
\* longest message list
MaxList == 3

Str(c) == JStr(<<c>>)
CreatedAtIso == JStr(<<"2", "0", "2", "3", "-", "0", "8", "-", "1", "2", "T",
                       "1", "7", ":", "1", "0", ":", "3", "7", ".", "0", "0", "0", "Z">>)
\* accepted by the codec, but with a one-digit month
CreatedAtIsoShort == JStr(<<"2", "0", "2", "3", "-", "8", "-", "1", "2", "T",
                            "1", "7", ":", "1", "0", ":", "3", "7", ".", "0", "0", "0", "Z">>)
CreatedAtBad == JStr(<<"x">>)

MessageCreateFields(date) ==
    <<Member("reactions", JArr(<<>>)), Member("urls", JArr(<<>>)),
      Member("text", JStr(<<"S", "u", "p">>)), Member("mediaUrls", JArr(<<>>)),
      Member("senderId", Str("2")), Member("id", Str("4")), Member("createdAt", date)>>
ParticipantsLeaveFields == <<Member("userIds", JArr(<<Str("1"), Str("9")>>))>>
JoinConversationFields ==
    <<Member("initiatingUserId", Str("1")),
      Member("participantsSnapshot", JArr(<<Str("2"), Str("1")>>))>>
Dated(date) == <<Member("createdAt", date)>>

MessageCreateJson == JObj(MessageCreateFields(CreatedAtIso))
ParticipantsLeaveJson == JObj(ParticipantsLeaveFields \o Dated(CreatedAtIso))
JoinConversationJson == JObj(JoinConversationFields \o Dated(CreatedAtIso))

\* contents a message element can carry: the three variants' own field sets,
\* field sets that fit several variants at once, and malformed ones
Contents ==
    {MessageCreateJson, ParticipantsLeaveJson, JoinConversationJson,
     JObj(ParticipantsLeaveFields \o JoinConversationFields \o Dated(CreatedAtIso)),
     JObj(ParticipantsLeaveFields \o JoinConversationFields \o MessageCreateFields(CreatedAtIso)),
     JObj(Dated(CreatedAtIso) \o ParticipantsLeaveFields),
     JObj(ParticipantsLeaveFields),
     JObj(ParticipantsLeaveFields \o Dated(CreatedAtBad)),
     JObj(ParticipantsLeaveFields \o Dated(CreatedAtIsoShort)),
     JObj(ParticipantsLeaveFields \o Dated(CreatedAtIso) \o <<Member("extra", JNull)>>),
     JObj(<<Member("extra", Str("1"))>> \o MessageCreateFields(CreatedAtIso)),
     JObj(Dated(CreatedAtIso) \o SubSeq(MessageCreateFields(CreatedAtIso), 1, 6)),
     JObj(ParticipantsLeaveFields \o Dated(CreatedAtIso) \o Dated(CreatedAtIso)),
     JArr(<<JArr(<<Str("1"), Str("9")>>), CreatedAtIso>>),
     Str("1")}

EventKeys == {"messageCreate", "participantsLeave", "joinConversation", "welcomeMessageCreate"}
Event(key, content) == JObj(<<Member(key, content)>>)

\* elements of a message list: keyed by the event name as in the archive,
\* bare (only the fields), with two keys, empty
MessageElements ==
    {Event(key, c) : key \in EventKeys, c \in Contents}
        \cup Contents
        \cup {JObj(<<Member("participantsLeave", ParticipantsLeaveJson),
                     Member("joinConversation", JoinConversationJson)>>),
              JObj(<<>>)}

ListElements ==
    {Event("messageCreate", MessageCreateJson),
     Event("participantsLeave", ParticipantsLeaveJson),
     Event("joinConversation", JoinConversationJson),
     Event("participantsLeave", JObj(ParticipantsLeaveFields \o Dated(CreatedAtIsoShort))),
     Event("participantsLeave", JoinConversationJson),
     ParticipantsLeaveJson}

ConversationElements ==
    {Event("messageCreate", MessageCreateJson),
     Event("participantsLeave", ParticipantsLeaveJson),
     Event("joinConversation", JoinConversationJson),
     Event("joinConversation", ParticipantsLeaveJson),
     JoinConversationJson}

\* elements of the message list of a one-to-one conversation: a message, a
\* message without its recipient, the events of a group conversation, and a
\* message next to such an event under one element
DirectMessageCreateJson ==
    JObj(<<Member("recipientId", Str("3"))>> \o MessageCreateFields(CreatedAtIso))
DirectElements ==
    {Event("messageCreate", DirectMessageCreateJson),
     Event("messageCreate", MessageCreateJson),
     Event("participantsLeave", ParticipantsLeaveJson),
     Event("joinConversation", JoinConversationJson),
     JObj(<<Member("participantsLeave", ParticipantsLeaveJson),
            Member("messageCreate", DirectMessageCreateJson)>>)}

Conversation(messages) ==
    JObj(<<Member("conversationId", Str("6")), Member("messages", JArr(messages))>>)

\* objects handed to the decoder of the wrapper around one conversation
ConversationObjects ==
    LET good == Conversation(<<Event("messageCreate", MessageCreateJson)>>)
        bad == Conversation(<<ParticipantsLeaveJson>>)
    IN UNION {{JObj(<<Member("dmConversation", c)>>),
               JObj(<<Member("dmConversation", c), Member("b", JNum(2))>>),
               JObj(<<Member("b", JNum(2)), Member("dmConversation", c)>>),
               JObj(<<Member("dmConversation", c), Member("dmConversation", c)>>),
               JObj(<<Member("b", c)>>)} : c \in {good, bad}}
        \cup {JObj(<<>>), JObj(<<Member("dmConversation", JNull)>>), good}

\* a tweet as the archive writes it, but for the members a caller varies
TweetEditInfoJson ==
    JObj(<<Member("initial",
             JObj(<<Member("editTweetIds", JArr(<<Str("1")>>)),
                    Member("editableUntil", CreatedAtIso),
                    Member("editsRemaining", Str("5")),
                    Member("isEditEligible", JBool(FALSE))>>))>>)

TweetEntitiesJson ==
    JObj(<<Member("hashtags",
             JArr(<<JObj(<<Member("text", Str("h")),
                           Member("indices", JArr(<<Str("0"), Str("2")>>))>>)>>)),
           Member("symbols", JArr(<<>>)),
           Member("user_mentions", JArr(<<>>)),
           Member("urls", JArr(<<>>))>>)

TweetCreatedAt ==
    JStr(CreatedAtText(<<"S", "a", "t">>, <<"A", "u", "g">>, <<"1", "2">>, <<"1", "6">>,
                       <<"1", "0">>, <<"3", "7">>, <<"+", "0", "0", "0", "0">>,
                       <<"2", "0", "2", "3">>))

\* what a caller can put under the varied keys of a tweet: nothing, or a value
TweetMemberChoices ==
    [retweeted : {<<Member("retweeted", JBool(FALSE))>>, <<Member("retweeted", Str("x"))>>},
     display_text_range :
        {<<Member("display_text_range", JArr(a))>> :
            a \in {<<Str("0"), Str("5")>>, <<Str("0"), Str("x")>>, <<Str("0")>>}},
     favorite_count :
        {<<>>, <<Member("favorite_count", Str("0"))>>, <<Member("favorite_count", Str("x"))>>,
         <<Member("favorite_count", JNum(0))>>},
     in_reply_to_status_id_str :
        {<<>>, <<Member("in_reply_to_status_id_str", Str("7"))>>,
         <<Member("in_reply_to_status_id_str", JNull)>>},
     possibly_sensitive :
        {<<>>, <<Member("possibly_sensitive", JBool(TRUE))>>,
         <<Member("possibly_sensitive", JNull)>>, <<Member("possibly_sensitive", Str("x"))>>},
     created_at :
        {<<>>, <<Member("created_at", TweetCreatedAt)>>, <<Member("created_at", CreatedAtBad)>>},
     other : {<<>>, <<Member("b", JNum(2))>>}]

TweetJson(m) ==
    JObj(m.other
         \o <<Member("edit_info", TweetEditInfoJson)>>
         \o m.retweeted
         \o <<Member("source", Str("s")), Member("entities", TweetEntitiesJson)>>
         \o m.display_text_range
         \o m.favorite_count
         \o m.in_reply_to_status_id_str
         \o <<Member("id_str", Str("1")), Member("truncated", JBool(FALSE)),
              Member("retweet_count", Str("0")), Member("id", Str("1"))>>
         \o m.possibly_sensitive
         \o m.created_at
         \o <<Member("favorited", JBool(FALSE)), Member("full_text", Str("t")),
              Member("lang", Str("e"))>>)

\* what a caller can put under each key of a deck column: nothing, or a value
DeckColumnMemberChoices ==
    [pathname : {<<>>, <<Member("pathname", Str("p"))>>},
     title : {<<>>, <<Member("title", Str("t"))>>, <<Member("title", JNull)>>,
              <<Member("title", JNum(5))>>},
     query : {<<>>, <<Member("query", Str("q"))>>, <<Member("query", JNull)>>},
     other : {<<>>, <<Member("b", JNum(2))>>, <<Member("b", JNull)>>}]

\* deck columns with their keys in declaration order and in the reverse of it
DeckColumns ==
    UNION {{JObj(m.pathname \o m.title \o m.query \o m.other),
            JObj(m.other \o m.query \o m.title \o m.pathname)} :
              m \in DeckColumnMemberChoices}

\* what a caller can put under each key of a like: nothing, or a value
LikeMemberChoices ==
    [tweetId : {<<>>, <<Member("tweetId", Str("1"))>>, <<Member("tweetId", JNum(1))>>},
     fullText : {<<>>, <<Member("fullText", Str("t"))>>, <<Member("fullText", JNull)>>,
                 <<Member("fullText", JNum(5))>>},
     expandedUrl : {<<>>, <<Member("expandedUrl", Str("u"))>>},
     other : {<<>>, <<Member("b", JNum(2))>>}]

Likes == {JObj(m.other \o m.tweetId \o m.fullText \o m.expandedUrl) : m \in LikeMemberChoices}
             \cup {JArr(<<Str("1"), Str("t"), Str("u")>>), JArr(<<Str("1"), Str("u")>>)}

\* objects handed to the decoder of the wrapper around one like
LikeObjects ==
    {JObj(<<Member("like", l)>>) : l \in Likes \cup {JNull, Str("1")}}
        \cup {JObj(<<Member("b", l)>>) : l \in Likes}
        \cup {JObj(<<>>)}

\* calls that can be in flight side by side, and what they are called with
MaxCalls == 2
CallIds == 1..MaxCalls
Idle == [pc |-> "idle"]
CallArgs ==
    [op : {"deserialize"}, codec : {"number_like_string"},
     arg : {JStr(<<"7">>), JStr(<<"0", "0", "7">>), JStr(<<"x">>), JNum(1)}]
    \cup [op : {"serialize"}, codec : {"number_like_string"}, arg : {0, 7}]
    \cup [op : {"deserialize"}, codec : {"indices"},
          arg : {JArr(<<Str("1"), Str("2")>>), JArr(<<Str("2"), Str("1")>>)}]
    \cup [op : {"deserialize"}, codec : {"created_at"},
          arg : {TweetCreatedAt, CreatedAtBad,
                 JStr(CreatedAtText(<<"S", "a", "t">>, <<"A", "u", "g">>, <<"1", "2">>,
                                    <<"2", "3">>, <<"1", "0">>, <<"3", "7">>,
                                    <<"-", "0", "7", "0", "0">>, <<"2", "0", "2", "3">>))}]
    \cup [op : {"deserialize"}, codec : {"date_time_iso_8601"},
          arg : {CreatedAtIso, CreatedAtIsoShort}]
    \cup [op : {"serialize"}, codec : {"date_time_iso_8601", "created_at"},
          arg : {v \in InstantValues : v.year = 2023 /\ v.month = 12 /\ v.day = 31
                                        /\ v.hour = 23 /\ v.minute = 10 /\ v.milli = 68}]

\* variant of Frame for a function that keeps its argument in a static
\* buffer: the argument of the latest call of the same function to begin
FrameOfLatest(cs, id) ==
    LET same == {c \in CallIds : /\ cs[c].pc # "idle"
                                  /\ cs[c].op = cs[id].op
                                  /\ cs[c].codec = cs[id].codec}
    IN cs[CHOOSE c \in same : \A d \in same : cs[d].order <= cs[c].order].arg

\* the frame of a call: what the call was given, and no other call's
Frame(cs, id) == cs[id].arg

(***************************************************************************)
(* The caller's chain of calls.                                            *)
(***************************************************************************)
JsonItem(j) == [kind |-> "json", v |-> j]
ValueItem(v) == [kind |-> "value", v |-> v]
ErrItem(msg) == [kind |-> "err", v |-> msg]
PanicItem(msg) == [kind |-> "panic", v |-> msg]

ResultItem(r) ==
    CASE r.tag = "Ok" -> ValueItem(r.val)
      [] r.tag = "Err" -> ErrItem(r.msg)
      [] r.tag = "Panic" -> PanicItem(r.msg)

Last == hist[Len(hist)]
CanDeserialize(c) == codec = c /\ Last.kind = "json" /\ Len(hist) <= MaxSteps
CanSerialize(c) == codec = c /\ Last.kind = "value" /\ Len(hist) <= MaxSteps

\* JSON values that are not strings, and JSON values that are not arrays of
\* strings
NotStrings ==
    {JNum(1), JBool(TRUE), JNull, JArr(<<>>), JArr(<<Str("1")>>), JObj(<<>>),
     JObj(<<Member("b", Str("1"))>>)}
NotStringArrays ==
    {Str("1"), JNum(1), JBool(FALSE), JNull, JObj(<<>>)}
        \cup {JArr(a) : a \in {s \in SeqsUpTo({Str("1"), Str("x"), JNum(2), JNull}, MaxIdxLen) :
                                  \E h \in 1..Len(s) : s[h].kind # "string"}}

InitNumberLikeString ==
    /\ codec = "number_like_string"
    /\ hist \in {<<JsonItem(JStr(t))>> : t \in NumTexts}
                \cup {<<JsonItem(j)>> : j \in NotStrings}
                \cup {<<ValueItem(n)>> : n \in UsizeValues}

InitIndices ==
    /\ codec = "indices"
    /\ hist \in {<<JsonItem(JArr(a))>> : a \in IdxArrays}
                \cup {<<JsonItem(j)>> : j \in NotStringArrays}
                \cup {<<ValueItem(v)>> : v \in IdxValues}

\* what the other date codecs write for an instant: text in their formats
ForeignDateTexts(c) ==
    {WithSerialize(d, v) :
        d \in {"created_at", "date_time_iso_8601", "date_year_month_day",
               "date_year_month_day_hour_minute_second"} \ {c},
        v \in {w \in InstantValues : w.year = 2023 /\ w.milli = 0}}

InitCreatedAt ==
    /\ codec = "created_at"
    /\ \/ \E wd \in WeekdayTexts, mon \in MonthNameTexts, d \in DayTexts, h \in HourTexts,
             mi \in MinuteTexts, s \in SecondTexts, off \in OffsetTexts, y \in YearTexts :
             hist = <<JsonItem(JStr(CreatedAtText(wd, mon, d, h, mi, s, off, y)))>>
       \/ \E t \in CreatedAtMalformed : hist = <<JsonItem(JStr(t))>>
       \/ \E j \in ForeignDateTexts("created_at") : hist = <<JsonItem(j)>>
       \/ \E j \in NotStrings : hist = <<JsonItem(j)>>
       \/ \E v \in InstantValues : hist = <<ValueItem(v)>>

InitDateTimeIso8601 ==
    /\ codec = "date_time_iso_8601"
    /\ \/ \E y \in YearTexts, mon \in MonthTexts, d \in DayTexts, h \in HourTexts,
             mi \in MinuteTexts, s \in SecondTexts, ms \in MilliTexts, z \in ZoneTexts :
             hist = <<JsonItem(JStr(Iso8601Text(y, mon, d, h, mi, s, ms, z)))>>
       \/ \E t \in Iso8601Malformed : hist = <<JsonItem(JStr(t))>>
       \/ \E j \in ForeignDateTexts("date_time_iso_8601") : hist = <<JsonItem(j)>>
       \/ \E j \in NotStrings : hist = <<JsonItem(j)>>
       \/ \E v \in InstantValues : hist = <<ValueItem(v)>>

InitDateYearMonthDay ==
    /\ codec = "date_year_month_day"
    /\ \/ \E y \in YearTexts, mon \in MonthTexts, d \in DayTexts, sep \in {".", "-"} :
             hist = <<JsonItem(JStr(YearMonthDayText(y, mon, d, sep)))>>
       \/ \E t \in YearMonthDayMalformed : hist = <<JsonItem(JStr(t))>>
       \/ \E j \in ForeignDateTexts("date_year_month_day") : hist = <<JsonItem(j)>>
       \/ \E j \in NotStrings : hist = <<JsonItem(j)>>
       \/ \E v \in InstantValues : hist = <<ValueItem(v)>>

InitDateYearMonthDayHourMinuteSecond ==
    /\ codec = "date_year_month_day_hour_minute_second"
    /\ \/ \E y \in YearTexts, mon \in MonthTexts, d \in DayTexts, h \in HourTexts,
             mi \in MinuteTexts, s \in SecondTexts :
             hist = <<JsonItem(JStr(YearMonthDayHourMinuteSecondText(y, mon, d, h, mi, s)))>>
       \/ \E t \in YearMonthDayHourMinuteSecondMalformed : hist = <<JsonItem(JStr(t))>>
       \/ \E j \in ForeignDateTexts("date_year_month_day_hour_minute_second") : hist = <<JsonItem(j)>>
       \/ \E j \in NotStrings : hist = <<JsonItem(j)>>
       \/ \E v \in InstantValues : hist = <<ValueItem(v)>>

InitMessage ==
    /\ codec = "direct_messages_group::Message"
    /\ \E e \in MessageElements : hist = <<JsonItem(e)>>

InitVecMessage ==
    /\ codec = "Vec<direct_messages_group::Message>"
    /\ \E l \in SeqsUpTo(ListElements, MaxList) : hist = <<JsonItem(JArr(l))>>

InitDmConversation ==
    /\ codec = "direct_messages_group::DmConversation"
    /\ \E l \in SeqsUpTo(ConversationElements, MaxList) :
          hist = <<JsonItem(Conversation(l))>>

InitDMConversation ==
    /\ codec = "direct_messages::DMConversation"
    /\ \E l \in SeqsUpTo(DirectElements, MaxList) : hist = <<JsonItem(Conversation(l))>>

InitHeadersDmConversation ==
    /\ codec = "direct_message_headers::DmConversation"
    /\ \E l \in SeqsUpTo(DirectElements, MaxList) : hist = <<JsonItem(Conversation(l))>>

InitDmConversationObject ==
    /\ codec = "direct_messages_group::DmConversationObject"
    /\ \E o \in ConversationObjects : hist = <<JsonItem(o)>>

InitTweet ==
    /\ codec = "tweets::Tweet"
    /\ \E m \in TweetMemberChoices : hist = <<JsonItem(TweetJson(m))>>

\* the wrapper around a tweet, around something else, and without its key
InitTweetObject ==
    /\ codec = "tweets::TweetObject"
    /\ \/ \E m \in TweetMemberChoices :
             /\ m.other = <<>> /\ m.in_reply_to_status_id_str = <<>>
             /\ hist = <<JsonItem(JObj(<<Member("tweet", TweetJson(m))>>))>>
       \/ \E j \in {JNull, Str("1"), JObj(<<>>)} :
             hist = <<JsonItem(JObj(<<Member("tweet", j)>>))>>
       \/ \E l \in LikeObjects : hist = <<JsonItem(l)>>

InitDeckColumn ==
    /\ codec = "tweetdeck::DeckColumn"
    /\ \E c \in DeckColumns : hist = <<JsonItem(c)>>

InitLikeObject ==
    /\ codec = "like::LikeObject"
    /\ \E o \in LikeObjects : hist = <<JsonItem(o)>>

InitChain ==
    \/ InitNumberLikeString
    \/ InitIndices
    \/ InitCreatedAt
    \/ InitDateTimeIso8601
    \/ InitDateYearMonthDay
    \/ InitDateYearMonthDayHourMinuteSecond
    \/ InitMessage
    \/ InitVecMessage
    \/ InitDmConversation
    \/ InitDmConversationObject
    \/ InitLikeObject
    \/ InitDMConversation
    \/ InitHeadersDmConversation
    \/ InitDeckColumn
    \/ InitTweet
    \/ InitTweetObject

\* one chain of calls by one caller: no calls in flight side by side
Init ==
    /\ calls = [id \in CallIds |-> Idle]
    /\ InitChain

number_like_string_deserialize ==
    /\ CanDeserialize("number_like_string")
    /\ hist' = Append(hist, ResultItem(number_like_string_Deserialize(Last.v)))
    /\ UNCHANGED <<codec, calls>>

number_like_string_serialize ==
    /\ CanSerialize("number_like_string")
    /\ hist' = Append(hist, JsonItem(number_like_string_Serialize(Last.v)))
    /\ UNCHANGED <<codec, calls>>

indices_deserialize ==
    /\ CanDeserialize("indices")
    /\ hist' = Append(hist, ResultItem(indices_Deserialize(Last.v)))
    /\ UNCHANGED <<codec, calls>>

indices_serialize ==
    /\ CanSerialize("indices")
    /\ hist' = Append(hist, JsonItem(indices_Serialize(Last.v)))
    /\ UNCHANGED <<codec, calls>>

created_at_deserialize ==
    /\ CanDeserialize("created_at")
    /\ hist' = Append(hist, ResultItem(created_at_Deserialize(Last.v)))
    /\ UNCHANGED <<codec, calls>>

created_at_serialize ==
    /\ CanSerialize("created_at")
    /\ hist' = Append(hist, JsonItem(created_at_Serialize(Last.v)))
    /\ UNCHANGED <<codec, calls>>

date_time_iso_8601_deserialize ==
    /\ CanDeserialize("date_time_iso_8601")
    /\ hist' = Append(hist, ResultItem(date_time_iso_8601_Deserialize(Last.v)))
    /\ UNCHANGED <<codec, calls>>

date_time_iso_8601_serialize ==
    /\ CanSerialize("date_time_iso_8601")
    /\ hist' = Append(hist, JsonItem(date_time_iso_8601_Serialize(Last.v)))
    /\ UNCHANGED <<codec, calls>>

date_year_month_day_deserialize ==
    /\ CanDeserialize("date_year_month_day")
    /\ hist' = Append(hist, ResultItem(date_year_month_day_Deserialize(Last.v)))
    /\ UNCHANGED <<codec, calls>>

date_year_month_day_serialize ==
    /\ CanSerialize("date_year_month_day")
    /\ hist' = Append(hist, JsonItem(date_year_month_day_Serialize(Last.v)))
    /\ UNCHANGED <<codec, calls>>

date_year_month_day_hour_minute_second_deserialize ==
    /\ CanDeserialize("date_year_month_day_hour_minute_second")
    /\ hist' = Append(hist, ResultItem(date_year_month_day_hour_minute_second_Deserialize(Last.v)))
    /\ UNCHANGED <<codec, calls>>

date_year_month_day_hour_minute_second_serialize ==
    /\ CanSerialize("date_year_month_day_hour_minute_second")
    /\ hist' = Append(hist, JsonItem(date_year_month_day_hour_minute_second_Serialize(Last.v)))
    /\ UNCHANGED <<codec, calls>>

Message_deserialize ==
    /\ CanDeserialize("direct_messages_group::Message")
    /\ hist' = Append(hist, ResultItem(Deserialize(direct_messages_group_Message, Last.v)))
    /\ UNCHANGED <<codec, calls>>

Message_serialize ==
    /\ CanSerialize("direct_messages_group::Message")
    /\ hist' = Append(hist, JsonItem(Serialize(direct_messages_group_Message, Last.v)))
    /\ UNCHANGED <<codec, calls>>

VecMessage_deserialize ==
    /\ CanDeserialize("Vec<direct_messages_group::Message>")
    /\ hist' = Append(hist, ResultItem(Deserialize(TVec(direct_messages_group_Message), Last.v)))
    /\ UNCHANGED <<codec, calls>>

VecMessage_serialize ==
    /\ CanSerialize("Vec<direct_messages_group::Message>")
    /\ hist' = Append(hist, JsonItem(Serialize(TVec(direct_messages_group_Message), Last.v)))
    /\ UNCHANGED <<codec, calls>>

DmConversation_deserialize ==
    /\ CanDeserialize("direct_messages_group::DmConversation")
    /\ hist' = Append(hist, ResultItem(Deserialize(direct_messages_group_DmConversation, Last.v)))
    /\ UNCHANGED <<codec, calls>>

DmConversation_serialize ==
    /\ CanSerialize("direct_messages_group::DmConversation")
    /\ hist' = Append(hist, JsonItem(Serialize(direct_messages_group_DmConversation, Last.v)))
    /\ UNCHANGED <<codec, calls>>

DMConversation_deserialize ==
    /\ CanDeserialize("direct_messages::DMConversation")
    /\ hist' = Append(hist, ResultItem(Deserialize(direct_messages_DMConversation, Last.v)))
    /\ UNCHANGED <<codec, calls>>

DMConversation_serialize ==
    /\ CanSerialize("direct_messages::DMConversation")
    /\ hist' = Append(hist, JsonItem(Serialize(direct_messages_DMConversation, Last.v)))
    /\ UNCHANGED <<codec, calls>>

HeadersDmConversation_deserialize ==
    /\ CanDeserialize("direct_message_headers::DmConversation")
    /\ hist' = Append(hist, ResultItem(Deserialize(direct_message_headers_DmConversation, Last.v)))
    /\ UNCHANGED <<codec, calls>>

HeadersDmConversation_serialize ==
    /\ CanSerialize("direct_message_headers::DmConversation")
    /\ hist' = Append(hist, JsonItem(Serialize(direct_message_headers_DmConversation, Last.v)))
    /\ UNCHANGED <<codec, calls>>

DmConversationObject_deserialize ==
    /\ CanDeserialize("direct_messages_group::DmConversationObject")
    /\ hist' = Append(hist, ResultItem(Deserialize(direct_messages_group_DmConversationObject, Last.v)))
    /\ UNCHANGED <<codec, calls>>

DmConversationObject_serialize ==
    /\ CanSerialize("direct_messages_group::DmConversationObject")
    /\ hist' = Append(hist, JsonItem(Serialize(direct_messages_group_DmConversationObject, Last.v)))
    /\ UNCHANGED <<codec, calls>>

Tweet_deserialize ==
    /\ CanDeserialize("tweets::Tweet")
    /\ hist' = Append(hist, ResultItem(Deserialize(tweets_Tweet, Last.v)))
    /\ UNCHANGED <<codec, calls>>

Tweet_serialize ==
    /\ CanSerialize("tweets::Tweet")
    /\ hist' = Append(hist, JsonItem(Serialize(tweets_Tweet, Last.v)))
    /\ UNCHANGED <<codec, calls>>

TweetObject_deserialize ==
    /\ CanDeserialize("tweets::TweetObject")
    /\ hist' = Append(hist, ResultItem(Deserialize(tweets_TweetObject, Last.v)))
    /\ UNCHANGED <<codec, calls>>

TweetObject_serialize ==
    /\ CanSerialize("tweets::TweetObject")
    /\ hist' = Append(hist, JsonItem(Serialize(tweets_TweetObject, Last.v)))
    /\ UNCHANGED <<codec, calls>>

DeckColumn_deserialize ==
    /\ CanDeserialize("tweetdeck::DeckColumn")
    /\ hist' = Append(hist, ResultItem(Deserialize(tweetdeck_DeckColumn, Last.v)))
    /\ UNCHANGED <<codec, calls>>

DeckColumn_serialize ==
    /\ CanSerialize("tweetdeck::DeckColumn")
    /\ hist' = Append(hist, JsonItem(Serialize(tweetdeck_DeckColumn, Last.v)))
    /\ UNCHANGED <<codec, calls>>

LikeObject_deserialize ==
    /\ CanDeserialize("like::LikeObject")
    /\ hist' = Append(hist, ResultItem(Deserialize(like_LikeObject, Last.v)))
    /\ UNCHANGED <<codec, calls>>

LikeObject_serialize ==
    /\ CanSerialize("like::LikeObject")
    /\ hist' = Append(hist, JsonItem(Serialize(like_LikeObject, Last.v)))
    /\ UNCHANGED <<codec, calls>>

Next ==
    \/ number_like_string_deserialize
    \/ number_like_string_serialize
    \/ indices_deserialize
    \/ indices_serialize
    \/ created_at_deserialize
    \/ created_at_serialize
    \/ date_time_iso_8601_deserialize
    \/ date_time_iso_8601_serialize
    \/ date_year_month_day_deserialize
    \/ date_year_month_day_serialize
    \/ date_year_month_day_hour_minute_second_deserialize
    \/ date_year_month_day_hour_minute_second_serialize
    \/ Message_deserialize
    \/ Message_serialize
    \/ VecMessage_deserialize
    \/ VecMessage_serialize
    \/ DmConversation_deserialize
    \/ DmConversation_serialize
    \/ DmConversationObject_deserialize
    \/ DmConversationObject_serialize
    \/ LikeObject_deserialize
    \/ LikeObject_serialize
    \/ DMConversation_deserialize
    \/ DMConversation_serialize
    \/ HeadersDmConversation_deserialize
    \/ HeadersDmConversation_serialize
    \/ DeckColumn_deserialize
    \/ DeckColumn_serialize
    \/ Tweet_deserialize
    \/ Tweet_serialize
    \/ TweetObject_deserialize
    \/ TweetObject_serialize

Spec == Init /\ [][Next]_vars

(***************************************************************************)
(* Calls side by side.  Each call owns its frame (its argument and its     *)
(* locals); FORMAT is a const.  A call begins, which puts its argument in  *)
(* its frame, and later runs to its return; the steps of different calls   *)
(* interleave in every order.                                              *)
(***************************************************************************)
\* a call run to its return on the argument in its frame
Run(op, c, arg) ==
    IF op = "deserialize" THEN ResultItem(WithDeserialize(c, arg))
    ELSE JsonItem(WithSerialize(c, arg))

InitParallel ==
    /\ codec = "none"
    /\ hist = <<>>
    /\ calls = [id \in CallIds |-> Idle]

Call_begin(id) ==
    /\ calls[id].pc = "idle"
    /\ \E a \in CallArgs :
          calls' = [calls EXCEPT ![id] =
                      [pc |-> "running", op |-> a.op, codec |-> a.codec, arg |-> a.arg,
                       order |-> 1 + Cardinality({c \in CallIds : calls[c].pc # "idle"})]]
    /\ UNCHANGED <<codec, hist>>

Call_return(id) ==
    /\ calls[id].pc = "running"
    /\ calls' = [calls EXCEPT ![id] =
                  [pc |-> "done", op |-> calls[id].op, codec |-> calls[id].codec,
                   arg |-> calls[id].arg, order |-> calls[id].order,
                   result |-> Run(calls[id].op, calls[id].codec, Frame(calls, id))]]
    /\ UNCHANGED <<codec, hist>>

NextParallel ==
    \/ \E id \in CallIds : Call_begin(id)
    \/ \E id \in CallIds : Call_return(id)

SpecParallel == InitParallel /\ [][NextParallel]_vars

(***************************************************************************)
(* Properties.  hist[i] of kind "json" followed by hist[i + 1] is one      *)
(* deserialize call; hist[i] of kind "value" followed by hist[i + 1] is    *)
(* one serialize call.                                                     *)
(***************************************************************************)
DateCodecs ==
    {"created_at", "date_time_iso_8601", "date_year_month_day",
     "date_year_month_day_hour_minute_second"}
ScalarCodecs == DateCodecs \cup {"number_like_string", "indices"}

Decoded(i) == i + 1 <= Len(hist) /\ hist[i].kind = "json"
Accepted(i) == Decoded(i) /\ hist[i + 1].kind = "value"
Reencoded(i) == Accepted(i) /\ i + 2 <= Len(hist)
Encoded(i) == i + 1 <= Len(hist) /\ hist[i].kind = "value"
Redecoded(i) == Encoded(i) /\ i + 2 <= Len(hist)

RangeOf(s) == {s[i] : i \in 1..Len(s)}

\* s has the length of layout and agrees with it position by position:
\* "#" stands for a decimal digit, "A" for any character
MatchesLayout(s, layout) ==
    /\ Len(s) = Len(layout)
    /\ \A i \in 1..Len(layout) :
         CASE layout[i] = "#" -> s[i] \in Digits
           [] layout[i] = "A" -> TRUE
           [] OTHER -> s[i] = layout[i]

\* Aaa Aaa ## ##:##:## +0000 ####
CreatedAtLayout ==
    <<"A", "A", "A", " ", "A", "A", "A", " ", "#", "#", " ", "#", "#", ":", "#", "#", ":",
      "#", "#", " ", "+", "0", "0", "0", "0", " ", "#", "#", "#", "#">>
\* ####-##-##T##:##:##.###Z
Iso8601Layout ==
    <<"#", "#", "#", "#", "-", "#", "#", "-", "#", "#", "T", "#", "#", ":", "#", "#", ":",
      "#", "#", ".", "#", "#", "#", "Z">>
\* ####.##.##
YearMonthDayLayout == <<"#", "#", "#", "#", ".", "#", "#", ".", "#", "#">>
\* ####-##-## ##:##:##
YearMonthDayHourMinuteSecondLayout ==
    <<"#", "#", "#", "#", "-", "#", "#", "-", "#", "#", " ", "#", "#", ":", "#", "#", ":",
      "#", "#">>

\* decimal digits without leading zeros
CanonicalNumber(s) ==
    /\ s # <<>>
    /\ \A i \in 1..Len(s) : s[i] \in Digits
    /\ Len(s) > 1 => s[1] # "0"

\* the canonical form of an input of a scalar codec, read off the text alone
CanonicalText(c, j) ==
    CASE c = "created_at" ->
           /\ j.kind = "string"
           /\ MatchesLayout(j.text, CreatedAtLayout)
           /\ SubSeq(j.text, 1, 3) \in RangeOf(ShortWeekdays)
           /\ SubSeq(j.text, 5, 7) \in RangeOf(ShortMonths)
      [] c = "date_time_iso_8601" ->
           j.kind = "string" /\ MatchesLayout(j.text, Iso8601Layout)
      [] c = "date_year_month_day" ->
           j.kind = "string" /\ MatchesLayout(j.text, YearMonthDayLayout)
      [] c = "date_year_month_day_hour_minute_second" ->
           j.kind = "string" /\ MatchesLayout(j.text, YearMonthDayHourMinuteSecondLayout)
      [] c = "number_like_string" -> j.kind = "string" /\ CanonicalNumber(j.text)
      [] c = "indices" ->
           /\ j.kind = "array"
           /\ Len(j.items) = 2
           /\ \A i \in 1..2 : j.items[i].kind = "string" /\ CanonicalNumber(j.items[i].text)

C2_DecodeNeverPanics ==
    codec \in ScalarCodecs => \A i \in 1..Len(hist) : hist[i].kind # "panic"

\* C3 (as stated): when the fields an element carries are decodable by more
\* than one variant, the decoder selects the earliest of them in the order
\* MessageCreate, ParticipantsLeave, JoinConversation.
Variants == direct_messages_group_Message.variants
IsEvent(e) ==
    /\ e.kind = "object"
    /\ Len(e.members) = 1
    /\ \E k \in 1..Len(Variants) : Variants[k].key = e.members[1].key
\* the fields an element carries: under its event key, or bare
FieldsOf(e) == IF IsEvent(e) THEN e.members[1].val ELSE e
\* the variants whose own field decoder accepts the fields
Candidates(e) == {k \in 1..Len(Variants) : IsOk(Deserialize(Variants[k].ty, FieldsOf(e)))}
Earliest(S) == CHOOSE k \in S : \A h \in S : k <= h

C3_EarliestCandidateSelected ==
    codec = "direct_messages_group::Message" =>
        \A i \in 1..Len(hist) :
            (Decoded(i) /\ Cardinality(Candidates(hist[i].v)) > 1) =>
                /\ hist[i + 1].kind = "value"
                /\ hist[i + 1].v.variant = Variants[Earliest(Candidates(hist[i].v))].key

\* C3 (amended): the variant is the one named by the element's single key,
\* whichever other variants could decode the fields under it; only that
\* variant's decoder is run, and when it rejects the fields the element fails
\* although another variant would accept them.
C3_VariantNamedByKeySelected ==
    codec = "direct_messages_group::Message" =>
        \A i \in 1..Len(hist) :
            Decoded(i) =>
                /\ hist[i + 1].kind = "value" =>
                     /\ IsEvent(hist[i].v)
                     /\ hist[i + 1].v.variant = hist[i].v.members[1].key
                /\ \A k \in 1..Len(Variants) :
                     (IsEvent(hist[i].v) /\ hist[i].v.members[1].key = Variants[k].key
                        /\ k \notin Candidates(hist[i].v))
                     => hist[i + 1].kind = "err"

\* fields that fit all three variants, under the key joinConversation, are
\* decoded as JoinConversation, the last in the order
C3_Witness ==
    /\ codec = "direct_messages_group::Message"
    /\ Accepted(1)
    /\ Candidates(hist[1].v) = {1, 2, 3}
    /\ hist[2].v.variant = "joinConversation"

\* C4 (as stated): an element is classified purely by which fields it has:
\* it is decoded as variant V exactly when a full decode of the element's
\* fields against V's field decoder succeeds; there is no tag.
C4_ClassifiedByFieldsAlone ==
    codec = "direct_messages_group::Message" =>
        \A i \in 1..Len(hist) :
            Decoded(i) =>
                (hist[i + 1].kind = "value")
                    <=> (\E k \in 1..Len(Variants) : IsOk(Deserialize(Variants[k].ty, hist[i].v)))

\* C4 (amended): an element is decoded as variant V exactly when it is an
\* object of one member whose key is V's name (messageCreate,
\* participantsLeave, joinConversation) and whose value decodes against V's
\* field decoder; the key is the tag, and a bare object of V's fields is
\* rejected.
C4_ClassifiedByKeyThenFields ==
    codec = "direct_messages_group::Message" =>
        \A i \in 1..Len(hist) :
            Decoded(i) =>
                \A k \in 1..Len(Variants) :
                    (hist[i + 1].kind = "value" /\ hist[i + 1].v.variant = Variants[k].key)
                        <=> /\ hist[i].v.kind = "object"
                            /\ Len(hist[i].v.members) = 1
                            /\ hist[i].v.members[1].key = Variants[k].key
                            /\ IsOk(Deserialize(Variants[k].ty, hist[i].v.members[1].val))

\* the bare object of userIds and createdAt, which the field decoder of
\* ParticipantsLeave accepts, is rejected as a message
C4_Witness ==
    /\ codec = "direct_messages_group::Message"
    /\ Decoded(1)
    /\ hist[1].v = ParticipantsLeaveJson
    /\ IsOk(Deserialize(direct_message_ParticipantsLeave, hist[1].v))
    /\ hist[2].kind = "err"

\* C5 (as stated): decoding an envelope that expects the single key K fails
\* whenever the object carries any key other than K.
EnvelopeKey == direct_messages_group_DmConversationObject.fields[1].key
C5_ExtraKeyFails ==
    codec = "direct_messages_group::DmConversationObject" =>
        \A i \in 1..Len(hist) :
            (Decoded(i) /\ hist[i].v.kind = "object"
                /\ \E h \in 1..Len(hist[i].v.members) : hist[i].v.members[h].key # EnvelopeKey)
            => hist[i + 1].kind = "err"

\* C5 (amended): decoding an envelope object succeeds exactly when the key K
\* occurs once in it with a value its payload decoder accepts; members under
\* any other key are skipped and do not make the decode fail.
C5_ExtraKeyIgnored ==
    codec = "direct_messages_group::DmConversationObject" =>
        \A i \in 1..Len(hist) :
            (Decoded(i) /\ hist[i].v.kind = "object") =>
                LET at == {h \in 1..Len(hist[i].v.members) :
                              hist[i].v.members[h].key = EnvelopeKey}
                IN (hist[i + 1].kind = "value")
                     <=> /\ Cardinality(at) = 1
                         /\ \A h \in at :
                              IsOk(Deserialize(direct_messages_group_DmConversation,
                                               hist[i].v.members[h].val))

\* an envelope with the extra key b after dmConversation is decoded
C5_Witness ==
    /\ codec = "direct_messages_group::DmConversationObject"
    /\ Accepted(1)
    /\ Len(hist[1].v.members) = 2
    /\ hist[1].v.members[1].key = EnvelopeKey
    /\ hist[1].v.members[2].key = "b"

\* C6 (as stated): number_like_string::deserialize yields a value only for
\* strings of decimal digits alone whose value fits the unsigned width; a
\* string with a non-digit, a leading + or -, or a value above the maximum
\* yields no value.
AllDigits(s) == s # <<>> /\ \A i \in 1..Len(s) : s[i] \in Digits
C6_OnlyDigitStringsYieldValue ==
    codec = "number_like_string" =>
        \A i \in 1..Len(hist) :
            (Decoded(i) /\ hist[i].v.kind = "string") =>
                (hist[i + 1].kind = "value")
                    <=> (AllDigits(hist[i].v.text) /\ DigitsValue(hist[i].v.text, 0) <= UsizeMax)

\* C6 (amended): number_like_string::deserialize yields a value exactly for
\* the strings made of an optional single leading + followed by one or more
\* decimal digits whose value fits the unsigned width, and the value is that
\* number; the empty string, a string with any other non-digit (a leading -
\* included) and a value above the maximum yield no value.
Unsigned(s) == IF s # <<>> /\ Head(s) = "+" THEN Tail(s) ELSE s
C6_OptionalPlusThenDigitsYieldValue ==
    codec = "number_like_string" =>
        \A i \in 1..Len(hist) :
            (Decoded(i) /\ hist[i].v.kind = "string") =>
                LET digits == Unsigned(hist[i].v.text)
                    fits == AllDigits(digits) /\ DigitsValue(digits, 0) <= UsizeMax
                IN /\ (hist[i + 1].kind = "value") <=> fits
                   /\ fits => hist[i + 1].v = DigitsValue(digits, 0)

\* the string +7 is decoded to 7
C6_Witness ==
    /\ codec = "number_like_string"
    /\ Accepted(1)
    /\ hist[1].v.text = <<"+", "7">>
    /\ hist[2].v = 7

\* C7 (as stated): for each date/time codec and every UTC instant v of
\* millisecond precision, deserialize(serialize(v)) equals v.
C7_InstantRoundTrips ==
    codec \in DateCodecs =>
        \A i \in 1..Len(hist) : Redecoded(i) => hist[i + 2] = hist[i]

\* C7 (amended): deserialize(serialize(v)) equals v cut to what the codec's
\* format carries: v itself for date_time_iso_8601 (milliseconds), v without
\* its milliseconds for created_at and
\* date_year_month_day_hour_minute_second (whole seconds), and midnight of
\* v's day for date_year_month_day.
CarriedBy(c, v) ==
    CASE c = "date_time_iso_8601" -> v
      [] c \in {"created_at", "date_year_month_day_hour_minute_second"} ->
           [v EXCEPT !.milli = 0]
      [] c = "date_year_month_day" ->
           [v EXCEPT !.hour = 0, !.minute = 0, !.second = 0, !.milli = 0]
C7_InstantRoundTripsToCodecPrecision ==
    codec \in DateCodecs =>
        \A i \in 1..Len(hist) :
            Redecoded(i) => hist[i + 2] = ValueItem(CarriedBy(codec, hist[i].v))

\* an instant with 68 milliseconds comes back from created_at without them
C7_Witness ==
    /\ codec = "created_at"
    /\ Redecoded(1)
    /\ hist[1].v.milli = 68
    /\ hist[3].kind = "value"
    /\ hist[3].v = [hist[1].v EXCEPT !.milli = 0]

\* C8: for each of the six codecs and every input s in the codec's canonical
\* form that it decodes, encode(decode(s)) equals s.
C8_CanonicalTextReencodesExactly ==
    codec \in ScalarCodecs =>
        \A i \in 1..Len(hist) :
            (Reencoded(i) /\ CanonicalText(codec, hist[i].v)) => hist[i + 2] = hist[i]

\* Sat Aug 12 16:10:37 +0000 2023 is decoded to 2023-08-12 16:10:37 and
\* re-encoded to itself
C8_Witness ==
    /\ codec = "created_at"
    /\ Reencoded(1)
    /\ hist[1].v.text = CreatedAtText(<<"S", "a", "t">>, <<"A", "u", "g">>, <<"1", "2">>,
                                      <<"1", "6">>, <<"1", "0">>, <<"3", "7">>,
                                      <<"+", "0", "0", "0", "0">>, <<"2", "0", "2", "3">>)
    /\ hist[2].v = [year |-> 2023, month |-> 8, day |-> 12, hour |-> 16, minute |-> 10,
                    second |-> 37, milli |-> 0]
    /\ hist[3] = hist[1]

\* C9: if any element of a message list fails to decode as a Message, the
\* decode of the whole list, and of the conversation holding it, returns an
\* error and no list, wherever the failing element stands; a list that is
\* returned has one Message per element.
FailsAsMessage(e) == ~IsOk(Deserialize(direct_messages_group_Message, e))
MessagesOf(j) ==
    IF codec = "Vec<direct_messages_group::Message>" THEN j.items
    ELSE j.members[2].val.items
DecodedMessages(v) ==
    IF codec = "Vec<direct_messages_group::Message>" THEN v ELSE v.messages
C9_FailingElementFailsWholeList ==
    codec \in {"Vec<direct_messages_group::Message>", "direct_messages_group::DmConversation"} =>
        \A i \in 1..Len(hist) :
            Decoded(i) =>
                /\ (\E k \in 1..Len(MessagesOf(hist[i].v)) :
                        FailsAsMessage(MessagesOf(hist[i].v)[k]))
                     => hist[i + 1].kind = "err"
                /\ hist[i + 1].kind = "value" =>
                     Len(DecodedMessages(hist[i + 1].v)) = Len(MessagesOf(hist[i].v))

\* a list of three elements whose second alone fails is refused whole
C9_Witness ==
    /\ codec = "Vec<direct_messages_group::Message>"
    /\ Decoded(1)
    /\ Len(hist[1].v.items) = 3
    /\ ~FailsAsMessage(hist[1].v.items[1])
    /\ FailsAsMessage(hist[1].v.items[2])
    /\ ~FailsAsMessage(hist[1].v.items[3])
    /\ hist[2].kind = "err"

\* the canonical form of the JSON of a type: every struct carries exactly its
\* declared fields in declaration order, every enum its one tagged member,
\* every codec field its canonical text
RECURSIVE CanonicalJson(_, _)
CanonicalJson(ty, j) ==
    CASE ty.k = "String" -> j.kind = "string"
      [] ty.k = "With" -> CanonicalText(ty.codec, j)
      [] ty.k = "Vec" ->
           j.kind = "array" /\ \A i \in 1..Len(j.items) : CanonicalJson(ty.elem, j.items[i])
      [] ty.k = "Option" -> j.kind # "null" /\ CanonicalJson(ty.elem, j)
      [] ty.k = "Struct" ->
           /\ j.kind = "object"
           /\ [h \in 1..Len(j.members) |-> j.members[h].key]
                = [h \in 1..Len(ty.fields) |-> ty.fields[h].key]
           /\ \A h \in 1..Len(ty.fields) : CanonicalJson(ty.fields[h].ty, j.members[h].val)
      [] ty.k = "Enum" ->
           /\ j.kind = "object"
           /\ Len(j.members) = 1
           /\ \E k \in 1..Len(ty.variants) :
                /\ ty.variants[k].key = j.members[1].key
                /\ CanonicalJson(ty.variants[k].ty, j.members[1].val)

FieldKeys(ty) == [h \in 1..Len(ty.fields) |-> ty.fields[h].key]
MemberKeys(j) == [h \in 1..Len(j.members) |-> j.members[h].key]
VariantType(key) == Variants[CHOOSE k \in 1..Len(Variants) : Variants[k].key = key].ty

\* C10: each decoded Message keeps the variant that produced it, encoding
\* re-emits exactly the fields of that variant, and decoding then encoding a
\* message list whose elements are in canonical form reproduces the list.
C10_VariantKeptAndCanonicalListReencodes ==
    codec = "Vec<direct_messages_group::Message>" =>
        \A i \in 1..Len(hist) :
            Accepted(i) =>
                /\ \A k \in 1..Len(hist[i].v.items) :
                     hist[i + 1].v[k].variant = hist[i].v.items[k].members[1].key
                /\ Reencoded(i) =>
                     /\ Len(hist[i + 2].v.items) = Len(hist[i].v.items)
                     /\ \A k \in 1..Len(hist[i].v.items) :
                          LET out == hist[i + 2].v.items[k].members[1]
                          IN /\ out.key = hist[i + 1].v[k].variant
                             /\ MemberKeys(out.val) = FieldKeys(VariantType(out.key))
                     /\ CanonicalJson(TVec(direct_messages_group_Message), hist[i].v)
                          => hist[i + 2] = hist[i]

\* a canonical list of one event of each variant comes back as it was
C10_Witness ==
    /\ codec = "Vec<direct_messages_group::Message>"
    /\ Reencoded(1)
    /\ Len(hist[1].v.items) = 3
    /\ CanonicalJson(TVec(direct_messages_group_Message), hist[1].v)
    /\ {hist[2].v[k].variant : k \in 1..3}
         = {"messageCreate", "participantsLeave", "joinConversation"}
    /\ hist[3] = hist[1]

\* C11: decoding a message list of n decodable elements yields exactly n
\* values, the i-th being the decoding of the i-th element, and encoding
\* emits the values in sequence order, one element per value: nothing is
\* sorted, deduplicated, grouped or dropped.
MessageOf(e) == Deserialize(direct_messages_group_Message, e)
C11_ListOrderPreserved ==
    codec = "Vec<direct_messages_group::Message>" =>
        \A i \in 1..Len(hist) :
            /\ (Decoded(i) /\ hist[i].v.kind = "array"
                  /\ \A k \in 1..Len(hist[i].v.items) : IsOk(MessageOf(hist[i].v.items[k])))
               => /\ hist[i + 1].kind = "value"
                  /\ Len(hist[i + 1].v) = Len(hist[i].v.items)
                  /\ \A k \in 1..Len(hist[i].v.items) :
                       hist[i + 1].v[k] = MessageOf(hist[i].v.items[k]).val
            /\ Encoded(i)
               => /\ hist[i + 1].v.kind = "array"
                  /\ Len(hist[i + 1].v.items) = Len(hist[i].v)
                  /\ \A k \in 1..Len(hist[i].v) :
                       hist[i + 1].v.items[k]
                         = Serialize(direct_messages_group_Message, hist[i].v[k])

\* a list whose first and third elements are identical and whose second is
\* of another variant is decoded to three values in that order and encoded
\* to three elements in that order
C11_Witness ==
    /\ codec = "Vec<direct_messages_group::Message>"
    /\ Reencoded(1)
    /\ Len(hist[1].v.items) = 3
    /\ hist[1].v.items[1] = hist[1].v.items[3]
    /\ hist[1].v.items[1] # hist[1].v.items[2]
    /\ Len(hist[2].v) = 3
    /\ hist[2].v[1] = hist[2].v[3]
    /\ hist[2].v[1].variant # hist[2].v[2].variant
    /\ Len(hist[3].v.items) = 3

\* C12: indices::deserialize on an array of strings whose length is not
\* exactly 2 returns the length error, whether or not the elements are valid
\* numeric strings; on ["1", "2"] it returns (1, 2).
ArrayOfStrings(j) ==
    j.kind = "array" /\ \A k \in 1..Len(j.items) : j.items[k].kind = "string"
C12_WrongLengthIsLengthError ==
    codec = "indices" =>
        \A i \in 1..Len(hist) :
            (Decoded(i) /\ ArrayOfStrings(hist[i].v)) =>
                /\ Len(hist[i].v.items) # 2
                     => hist[i + 1] = ErrItem("Expected a sequence of length 2")
                /\ hist[i].v = JArr(<<JStr(<<"1">>), JStr(<<"2">>)>>)
                     => hist[i + 1] = ValueItem(<<1, 2>>)

\* an array of three strings, one of them no number, gets the length error
C12_Witness ==
    /\ codec = "indices"
    /\ Decoded(1)
    /\ ArrayOfStrings(hist[1].v)
    /\ Len(hist[1].v.items) = 3
    /\ \E k \in 1..3 : hist[1].v.items[k] = JStr(<<"x">>)
    /\ hist[2] = ErrItem("Expected a sequence of length 2")

\* C13 (as stated): indices::deserialize on a two-element array succeeds
\* exactly when each element is valid for the numeric-string codec, then
\* returns [decode(e0), decode(e1)] in input order whatever the two values
\* are; when either element is invalid the decode fails with an error.
C13_PairDecodedElementwiseOrError ==
    codec = "indices" =>
        \A i \in 1..Len(hist) :
            (Decoded(i) /\ ArrayOfStrings(hist[i].v) /\ Len(hist[i].v.items) = 2) =>
                LET e0 == number_like_string_Deserialize(hist[i].v.items[1])
                    e1 == number_like_string_Deserialize(hist[i].v.items[2])
                IN IF IsOk(e0) /\ IsOk(e1)
                   THEN hist[i + 1] = ValueItem(<<e0.val, e1.val>>)
                   ELSE hist[i + 1].kind = "err"

\* the tokens of s between occurrences of sep
RECURSIVE Split(_, _)
Split(s, sep) ==
    IF \A i \in 1..Len(s) : s[i] # sep THEN <<s>>
    ELSE LET at == CHOOSE i \in 1..Len(s) : s[i] = sep /\ \A h \in 1..(i - 1) : s[h] # sep
         IN <<SubSeq(s, 1, at - 1)>> \o Split(SubSeq(s, at + 1, Len(s)), sep)

\* what a created_at text says, token by token: the local date-time and the
\* offset east of UTC in minutes
LocalOf(s) ==
    LET tokens == Split(s, " ")
        time == Split(tokens[4], ":")
    IN [year |-> DigitsValue(tokens[6], 0),
        month |-> CHOOSE m \in 1..12 : ShortMonths[m] = SubSeq(tokens[2], 1, 3),
        day |-> DigitsValue(tokens[3], 0),
        hour |-> DigitsValue(time[1], 0), minute |-> DigitsValue(time[2], 0),
        second |-> DigitsValue(time[3], 0), milli |-> 0]
OffsetOf(s) ==
    LET token == Split(s, " ")[5]
        digits == SelectSeq(Tail(token), LAMBDA c : c # ":")
        minutes == DigitsValue(SubSeq(digits, 1, 2), 0) * 60 + DigitsValue(SubSeq(digits, 3, 4), 0)
    IN IF Head(token) = "-" THEN -minutes ELSE minutes

\* the day after and the day before a date-time's day, by the calendar
NextDay(dt) ==
    IF dt.day < DaysInMonth(dt.year, dt.month) THEN [dt EXCEPT !.day = dt.day + 1]
    ELSE IF dt.month < 12 THEN [dt EXCEPT !.month = dt.month + 1, !.day = 1]
    ELSE [dt EXCEPT !.year = dt.year + 1, !.month = 1, !.day = 1]
PrevDay(dt) ==
    IF dt.day > 1 THEN [dt EXCEPT !.day = dt.day - 1]
    ELSE IF dt.month > 1
         THEN [dt EXCEPT !.month = dt.month - 1, !.day = DaysInMonth(dt.year, dt.month - 1)]
    ELSE [dt EXCEPT !.year = dt.year - 1, !.month = 12, !.day = 31]

\* the local date-time minus an offset of less than a day
MinusOffset(dt, offset) ==
    LET mins == dt.hour * 60 + dt.minute - offset
        day == IF mins < 0 THEN PrevDay(dt) ELSE IF mins >= 1440 THEN NextDay(dt) ELSE dt
        m == IF mins < 0 THEN mins + 1440 ELSE IF mins >= 1440 THEN mins - 1440 ELSE mins
    IN [day EXCEPT !.hour = m \div 60, !.minute = m % 60]

\* C14: created_at::deserialize interprets the +/-HHMM offset in the text
\* and returns the UTC instant equal to the textual local date-time minus
\* that offset, rolling the date over when the shift crosses midnight; "Sat
\* Aug 12 16:10:37 +0000 2023" decodes to 2023-08-12T16:10:37Z.
C14_OffsetNormalizedToUtc ==
    codec = "created_at" =>
        \A i \in 1..Len(hist) :
            Accepted(i) =>
                /\ hist[i + 1].v = MinusOffset(LocalOf(hist[i].v.text), OffsetOf(hist[i].v.text))
                /\ hist[i].v.text
                     = CreatedAtText(<<"S", "a", "t">>, <<"A", "u", "g">>, <<"1", "2">>,
                                     <<"1", "6">>, <<"1", "0">>, <<"3", "7">>,
                                     <<"+", "0", "0", "0", "0">>, <<"2", "0", "2", "3">>)
                   => hist[i + 1].v = [year |-> 2023, month |-> 8, day |-> 12, hour |-> 16,
                                       minute |-> 10, second |-> 37, milli |-> 0]

\* Tue Dec 31 23:10:37 -0800 2024 is decoded to 2025-01-01 07:10:37 UTC
C14_Witness ==
    /\ codec = "created_at"
    /\ Accepted(1)
    /\ OffsetOf(hist[1].v.text) = -480
    /\ LocalOf(hist[1].v.text).hour = 23
    /\ LocalOf(hist[1].v.text).year = 2024
    /\ hist[2].v = [year |-> 2025, month |-> 1, day |-> 1, hour |-> 7, minute |-> 10,
                    second |-> LocalOf(hist[1].v.text).second, milli |-> 0]

\* C15: number_like_string::serialize always emits the minimal decimal form
\* of the value (no leading zeros, no sign, no separators); so a decodable
\* string with leading zeros comes back without them: "007" decodes to 7 and
\* is encoded as "7".
C15_SerializeEmitsMinimalDecimal ==
    codec = "number_like_string" =>
        \A i \in 1..Len(hist) :
            /\ Encoded(i) =>
                 /\ hist[i + 1].v.kind = "string"
                 /\ CanonicalNumber(hist[i + 1].v.text)
                 /\ DigitsValue(hist[i + 1].v.text, 0) = hist[i].v
            /\ (Reencoded(i) /\ hist[i].v.text = <<"0", "0", "7">>) =>
                 /\ hist[i + 1].v = 7
                 /\ hist[i + 2].v = JStr(<<"7">>)

\* "007" is decoded to 7 and encoded as "7"
C15_Witness ==
    /\ codec = "number_like_string"
    /\ Reencoded(1)
    /\ hist[1].v = JStr(<<"0", "0", "7">>)
    /\ hist[2].v = 7
    /\ hist[3].v = JStr(<<"7">>)

\* C16: for every unsigned integer n from 0 to the maximum of the width,
\* number_like_string::deserialize(number_like_string::serialize(n)) = n, and
\* indices::deserialize(indices::serialize([a, b])) = [a, b] for every pair.
C16_NumberRoundTrips ==
    codec \in {"number_like_string", "indices"} =>
        \A i \in 1..Len(hist) : Redecoded(i) => hist[i + 2] = hist[i]

\* the maximum of the width is encoded and decoded back to itself
C16_Witness ==
    /\ codec = "number_like_string"
    /\ Redecoded(1)
    /\ hist[1].v = UsizeMax
    /\ hist[3] = ValueItem(UsizeMax)

\* what a date text holds, read off its separators alone: whether it has the
\* tokens of the codec's format, no fewer and no more, and then its numeric
\* tokens; month is the month number, 0 when it cannot be told
NoShape == [count |-> FALSE, numeric |-> <<>>, month |-> <<>>, day |-> <<>>,
            hour |-> <<>>, year |-> <<>>]
ShapeOfDate(date, sep) ==
    LET t == Split(date, sep)
    IN IF Len(t) # 3 THEN NoShape
       ELSE [NoShape EXCEPT !.count = TRUE, !.numeric = t, !.year = t[1], !.month = t[2],
                            !.day = t[3]]
WithTime(shape, time) ==
    LET t == Split(time, ":")
    IN IF ~shape.count \/ Len(t) # 3 THEN NoShape
       ELSE [shape EXCEPT !.numeric = shape.numeric \o t, !.hour = t[1]]
ShapeOf(c, s) ==
    CASE c = "created_at" ->
           LET t == Split(s, " ")
           IN IF Len(t) # 6 THEN NoShape
              ELSE WithTime([NoShape EXCEPT !.count = TRUE, !.numeric = <<t[3], t[6]>>,
                                            !.year = t[6], !.day = t[3],
                                            !.month = IF SubSeq(t[2], 1, 3) = <<"A", "u", "g">>
                                                      THEN <<"0", "8">> ELSE <<"1", "2">>],
                            t[4])
      [] c = "date_time_iso_8601" ->
           LET t == Split(s, "T")
               f == IF Len(t) = 2 THEN Split(t[2], ".") ELSE <<>>
           IN IF Len(t) # 2 \/ Len(f) # 2 \/ f[2] = <<>> \/ f[2][Len(f[2])] # "Z" THEN NoShape
              ELSE LET shape == WithTime(ShapeOfDate(t[1], "-"), f[1])
                   IN [shape EXCEPT !.numeric = shape.numeric \o <<DropLast(f[2], 1)>>]
      [] c = "date_year_month_day" -> ShapeOfDate(s, ".")
      [] c = "date_year_month_day_hour_minute_second" ->
           LET t == Split(s, " ")
           IN IF Len(t) # 2 THEN NoShape ELSE WithTime(ShapeOfDate(t[1], "-"), t[2])

NumberIn(token, range) == AllDigits(token) /\ DigitsValue(token, 0) \in range
\* a token missing or added, a numeric component that is no number, or a
\* month, day or hour out of range (the day also for its month)
Malformed(c, s) ==
    LET shape == ShapeOf(c, s)
    IN \/ ~shape.count
       \/ \E k \in 1..Len(shape.numeric) : ~AllDigits(shape.numeric[k])
       \/ ~NumberIn(shape.month, 1..12)
       \/ ~NumberIn(shape.day, 1..DaysInMonth(DigitsValue(shape.year, 0),
                                               DigitsValue(shape.month, 0)))
       \/ shape.hour # <<>> /\ ~NumberIn(shape.hour, 0..23)

C18_IsoSerializeEmitsThreeDigitsAndZ ==
    codec = "date_time_iso_8601" =>
        \A i \in 1..Len(hist) :
            Encoded(i) =>
                /\ hist[i + 1].v.kind = "string"
                /\ MatchesLayout(hist[i + 1].v.text, Iso8601Layout)
                /\ DigitsValue(SubSeq(hist[i + 1].v.text, 21, 23), 0) = hist[i].v.milli
                /\ hist[i].v.milli = 0
                     => SubSeq(hist[i + 1].v.text, 20, 24) = <<".", "0", "0", "0", "Z">>

\* an instant of zero milliseconds is written with .000Z
C18_Witness ==
    /\ codec = "date_time_iso_8601"
    /\ Encoded(1)
    /\ hist[1].v.milli = 0
    /\ hist[1].v.second = 37
    /\ SubSeq(hist[2].v.text, 18, 24) = <<"3", "7", ".", "0", "0", "0", "Z">>

\* the envelope type a chain decodes, for the envelope codecs
Envelopes ==
    {"direct_messages_group::DmConversationObject", "like::LikeObject", "tweets::TweetObject"}
EnvelopeType ==
    CASE codec = "like::LikeObject" -> like_LikeObject
      [] codec = "tweets::TweetObject" -> tweets_TweetObject
      [] OTHER -> direct_messages_group_DmConversationObject

\* the object at step i of an envelope chain has no member under the key K,
\* or a member under K whose value the inner type does not decode
LacksDecodableKey(i) ==
    /\ Decoded(i)
    /\ hist[i].v.kind = "object"
    /\ LET K == EnvelopeType.fields[1].key
           inner == EnvelopeType.fields[1].ty
           members == hist[i].v.members
       IN \/ \A h \in 1..Len(members) : members[h].key # K
          \/ \E h \in 1..Len(members) :
               /\ members[h].key = K
               /\ ~IsOk(Deserialize(inner, members[h].val))

\* C19: decoding an envelope object that expects key K returns an error when
\* the object has no member under K, and when a member under K holds a value
\* the inner type does not decode; no value is returned in either case.
C19_EnvelopeNeedsDecodableKey ==
    codec \in Envelopes =>
        \A i \in 1..Len(hist) : LacksDecodableKey(i) => hist[i + 1].kind = "err"

\* the record a chain decodes and the JSON handed to its decoder at step i:
\* a tweet, a deck column, the like inside its wrapper, the content of a
\* messageCreate event
Records ==
    {"tweets::Tweet", "tweetdeck::DeckColumn", "like::LikeObject",
     "direct_messages_group::Message"}
Unwrapped == {"tweets::Tweet", "tweetdeck::DeckColumn"}
RecordType ==
    CASE codec = "tweets::Tweet" -> tweets_Tweet
      [] codec = "tweetdeck::DeckColumn" -> tweetdeck_DeckColumn
      [] codec = "like::LikeObject" -> like_Like
      [] OTHER -> direct_messages_group_MessageCreate
IsRecord(i) ==
    /\ Decoded(i)
    /\ hist[i].v.kind = "object"
    /\ \/ codec \in Unwrapped
       \/ /\ Len(hist[i].v.members) = 1
          /\ hist[i].v.members[1].key =
                (IF codec = "like::LikeObject" THEN "like" ELSE "messageCreate")
          /\ hist[i].v.members[1].val.kind = "object"
RecordJson(i) == IF codec \in Unwrapped THEN hist[i].v ELSE hist[i].v.members[1].val
RecordValue(i) ==
    CASE codec \in Unwrapped -> hist[i + 1].v
      [] codec = "like::LikeObject" -> hist[i + 1].v.like
      [] OTHER -> hist[i + 1].v.content

Required(f) == f.ty.k # "Option"
MissingRequired(fields, members) ==
    \E g \in 1..Len(fields) :
        Required(fields[g]) /\ \A h \in 1..Len(members) : members[h].key # fields[g].key
FailingField(fields, members) ==
    \E g \in 1..Len(fields), h \in 1..Len(members) :
        /\ members[h].key = fields[g].key
        /\ ~IsOk(Deserialize(fields[g].ty, members[h].val))

\* C20: decoding a record is all-or-nothing: when a required field is missing
\* from the input, or a field's value fails the field's own decoder, the
\* decode returns an error; a decode that returns a record returns it with
\* every declared field set, and only Option fields were absent from the input.
C20_RecordDecodingAllOrNothing ==
    codec \in Records =>
        \A i \in 1..Len(hist) :
            IsRecord(i) =>
                LET fields == RecordType.fields
                    members == RecordJson(i).members
                IN /\ (MissingRequired(fields, members) \/ FailingField(fields, members))
                        => hist[i + 1].kind = "err"
                   /\ hist[i + 1].kind = "value" =>
                        /\ DOMAIN RecordValue(i) = {fields[g].key : g \in 1..Len(fields)}
                        /\ ~MissingRequired(fields, members)

\* C21: a string in the canonical form of one date codec is rejected with an
\* error by each of the other three date codecs: no decoder detects the
\* format of its input or falls back to another codec's format.
C21_ForeignCanonicalTextRejected ==
    codec \in DateCodecs =>
        \A i \in 1..Len(hist) :
            (Decoded(i) /\ \E d \in DateCodecs \ {codec} : CanonicalText(d, hist[i].v))
            => hist[i + 1].kind = "err"

\* the canonical ISO 8601 text of an instant was handed to the
\* year-month-day hour:minute:second decoder and refused
C21_Witness ==
    /\ codec = "date_year_month_day_hour_minute_second"
    /\ Len(hist) >= 2
    /\ hist[1].kind = "json"
    /\ \E v \in InstantValues : hist[1].v = date_time_iso_8601_Serialize(v)
    /\ hist[2].kind = "err"

\* the record written back at step i + 2 of a chain that decoded one at step i
RecordOut(i) == IF codec \in Unwrapped THEN hist[i + 2].v ELSE hist[i + 2].v.members[1].val

Absent(key, members) == \A h \in 1..Len(members) : members[h].key # key

\* the form the encoder writes: a struct carries declared keys only, in
\* declaration order, all of them but for Option fields it may leave out;
\* no null; every codec field in its canonical text
RECURSIVE WrittenJson(_, _)
WrittenJson(ty, j) ==
    CASE ty.k = "String" -> j.kind = "string"
      [] ty.k = "Bool" -> j.kind = "bool"
      [] ty.k = "With" -> CanonicalText(ty.codec, j)
      [] ty.k = "Vec" ->
           j.kind = "array" /\ \A i \in 1..Len(j.items) : WrittenJson(ty.elem, j.items[i])
      [] ty.k = "Option" -> j.kind # "null" /\ WrittenJson(ty.elem, j)
      [] ty.k = "Struct" ->
           /\ j.kind = "object"
           /\ \A h \in 1..Len(j.members) :
                /\ IsSome(FieldIndex(ty.fields, j.members[h].key))
                /\ WrittenJson(ty.fields[Get(FieldIndex(ty.fields, j.members[h].key))].ty,
                               j.members[h].val)
                /\ \A g \in 1..(h - 1) :
                     Get(FieldIndex(ty.fields, j.members[g].key))
                        < Get(FieldIndex(ty.fields, j.members[h].key))
           /\ ~MissingRequired(ty.fields, j.members)
      [] ty.k = "Enum" ->
           /\ j.kind = "object"
           /\ Len(j.members) = 1
           /\ \E k \in 1..Len(ty.variants) :
                /\ ty.variants[k].key = j.members[1].key
                /\ WrittenJson(ty.variants[k].ty, j.members[1].val)

\* C22: an Option field that is absent from the input decodes to None, and
\* a None field is left out by the encoder (no key, no null); so a record in
\* the written form whose optional fields are absent re-encodes to the JSON
\* it was decoded from.
C22_AbsentOptionalIsNoneAndOmitted ==
    codec \in Records =>
        \A i \in 1..Len(hist) :
            (IsRecord(i) /\ Accepted(i)) =>
                LET fields == RecordType.fields
                    members == RecordJson(i).members
                IN /\ \A g \in 1..Len(fields) :
                        (~Required(fields[g]) /\ Absent(fields[g].key, members)) =>
                            /\ RecordValue(i)[fields[g].key] = None
                            /\ Reencoded(i) => Absent(fields[g].key, RecordOut(i).members)
                   /\ (Reencoded(i) /\ WrittenJson(RecordType, RecordJson(i)))
                        => hist[i + 2] = hist[i]

\* a deck column with its title and without a query came back as it was
C22_Witness ==
    /\ codec = "tweetdeck::DeckColumn"
    /\ Reencoded(1)
    /\ MemberKeys(hist[1].v) = <<"pathname", "title">>
    /\ hist[2].v.title # None
    /\ hist[2].v.query = None
    /\ hist[3] = hist[1]

\* the JSON kinds a scalar codec does not take: anything but a string for the
\* number and date codecs, anything but an array of strings for indices
WrongKind(c, j) ==
    IF c = "indices"
    THEN j.kind # "array" \/ \E h \in 1..Len(j.items) : j.items[h].kind # "string"
    ELSE j.kind # "string"

\* C23: a JSON value of the wrong kind yields an error returned to the
\* caller: a number, boolean, null, array or object handed to
\* number_like_string or to a date codec, and a value that is not an array,
\* or an array with an element that is not a string, handed to indices.
C23_WrongKindIsError ==
    codec \in ScalarCodecs =>
        \A i \in 1..Len(hist) :
            (Decoded(i) /\ WrongKind(codec, hist[i].v)) => hist[i + 1].kind = "err"

\* indices was handed an array of a string that is no number and a number,
\* and returned an error
C23_Witness ==
    /\ codec = "indices"
    /\ Len(hist) >= 2
    /\ hist[1].kind = "json"
    /\ hist[1].v = JArr(<<Str("x"), JNum(2)>>)
    /\ hist[2].kind = "err"

KeyedMisfit(e) ==
    /\ IsEvent(e)
    /\ ~IsOk(Deserialize(VariantType(e.members[1].key), e.members[1].val))
    /\ Candidates(e) # {}
NoVariantKey(e) ==
    /\ e.kind = "object"
    /\ \/ e.members = <<>>
       \/ \A k \in 1..Len(Variants) : Variants[k].key # e.members[1].key

\* C25: the variant of a group-message element is chosen by the element's
\* single key alone: the payload is decoded against that key's variant only;
\* when it does not fit, the element fails, and the whole list with it, even
\* if another variant would decode the payload; an element without a key, or
\* under a key that names no variant, fails as well.
C25_VariantChosenBySingleKey ==
    /\ codec = "direct_messages_group::Message" =>
         \A i \in 1..Len(hist) :
             Decoded(i) =>
                 /\ hist[i + 1].kind = "value" =>
                      /\ IsEvent(hist[i].v)
                      /\ hist[i + 1].v.variant = hist[i].v.members[1].key
                      /\ Ok(hist[i + 1].v.content)
                           = Deserialize(VariantType(hist[i].v.members[1].key),
                                         hist[i].v.members[1].val)
                 /\ (KeyedMisfit(hist[i].v) \/ NoVariantKey(hist[i].v))
                      => hist[i + 1].kind = "err"
    /\ codec = "Vec<direct_messages_group::Message>" =>
         \A i \in 1..Len(hist) :
             (/\ Decoded(i)
              /\ \E k \in 1..Len(hist[i].v.items) :
                    KeyedMisfit(hist[i].v.items[k]) \/ NoVariantKey(hist[i].v.items[k]))
             => hist[i + 1].kind = "err"

\* a list whose second element carries a joinConversation payload under the
\* key participantsLeave is refused whole
C25_Witness ==
    /\ codec = "Vec<direct_messages_group::Message>"
    /\ Decoded(1)
    /\ Len(hist[1].v.items) = 2
    /\ ~FailsAsMessage(hist[1].v.items[1])
    /\ hist[1].v.items[2].members[1].key = "participantsLeave"
    /\ KeyedMisfit(hist[1].v.items[2])
    /\ hist[2].kind = "err"

\* C26: for every codec and every input s it decodes, the text s2 written
\* for the decoded value is decodable, decodes to the same value, and is
\* written back as s2: after one decode/encode cycle further cycles change
\* nothing.
C26_OneCycleNormalizes ==
    \A i \in 1..Len(hist) :
        Reencoded(i) =>
            /\ i + 3 <= Len(hist) =>
                 /\ hist[i + 3].kind = "value"
                 /\ hist[i + 3] = hist[i + 1]
            /\ i + 4 <= Len(hist) => hist[i + 4] = hist[i + 2]

\* a number with leading zeros, or a date with an offset that is not zero,
\* was normalised by the first cycle and left alone by the second
C26_Witness ==
    /\ codec \in {"number_like_string", "created_at"}
    /\ Len(hist) = 5
    /\ hist[1].kind = "json"
    /\ hist[3] # hist[1]
    /\ hist[4] = hist[2]
    /\ hist[5] = hist[3]

\* the record at step i, its type and its JSON, with every variant of a
\* message element counted as a record
IsRecordAt(i) ==
    IF codec = "direct_messages_group::Message"
    THEN Decoded(i) /\ IsEvent(hist[i].v) /\ hist[i].v.members[1].val.kind = "object"
    ELSE IsRecord(i)
RecordTypeAt(i) ==
    IF codec = "direct_messages_group::Message"
    THEN VariantType(hist[i].v.members[1].key)
    ELSE RecordType
\* the members of a record's JSON that its type declares
Declared(fields, members) ==
    SelectSeq(members, LAMBDA m : IsSome(FieldIndex(fields, m.key)))

\* C27: decoding a record ignores every member of the input that the record
\* type does not declare: the outcome is that of the input without those
\* members; encoding writes declared fields only; so an input that carries
\* an undeclared member decodes and re-encodes without it.
C27_UndeclaredFieldsIgnoredAndDropped ==
    codec \in Records =>
        \A i \in 1..Len(hist) :
            IsRecordAt(i) =>
                LET fields == RecordTypeAt(i).fields
                    members == RecordJson(i).members
                    stripped == Deserialize(RecordTypeAt(i), JObj(Declared(fields, members)))
                IN /\ (hist[i + 1].kind = "value") = IsOk(stripped)
                   /\ hist[i + 1].kind = "value" => RecordValue(i) = stripped.val
                   /\ Reencoded(i) =>
                        \A h \in 1..Len(RecordOut(i).members) :
                            IsSome(FieldIndex(fields, RecordOut(i).members[h].key))

\* a tweet that carries an undeclared member was decoded and written back
\* without it
C27_Witness ==
    /\ codec = "tweets::Tweet"
    /\ Reencoded(1)
    /\ ~Absent("b", hist[1].v.members)
    /\ Absent("b", hist[3].v.members)
    /\ hist[3].v.members = Declared(tweets_Tweet.fields, hist[1].v.members)

\* the keys of members name declared fields, each at most once, in
\* declaration order
InDeclarationOrder(fields, members) ==
    \A h \in 1..Len(members) :
        /\ IsSome(FieldIndex(fields, members[h].key))
        /\ \A g \in 1..(h - 1) :
             Get(FieldIndex(fields, members[g].key)) < Get(FieldIndex(fields, members[h].key))
\* the members under declared keys, one per field, put in declaration order
Reordered(fields, members) ==
    LET present == SelectSeq([g \in 1..Len(fields) |-> g],
                             LAMBDA g : ~Absent(fields[g].key, members))
    IN [h \in 1..Len(present) |->
          members[CHOOSE k \in 1..Len(members) : members[k].key = fields[present[h]].key]]
NoKeyTwice(members) ==
    \A g, h \in 1..Len(members) : members[g].key = members[h].key => g = h

\* C28: encoding writes a record's fields in the declaration order of its
\* type whatever the key order of the input it was decoded from; decoding
\* takes the keys in any order; so decoding then encoding gives back the key
\* order of the input only when the input was in declaration order.
C28_EncodedInDeclarationOrder ==
    codec \in Records =>
        \A i \in 1..Len(hist) :
            IsRecordAt(i) =>
                LET ty == RecordTypeAt(i)
                    members == RecordJson(i).members
                IN /\ NoKeyTwice(members) =>
                        LET reordered == Deserialize(ty, JObj(Reordered(ty.fields, members)))
                        IN /\ (hist[i + 1].kind = "value") = IsOk(reordered)
                           /\ hist[i + 1].kind = "value" => RecordValue(i) = reordered.val
                   /\ Reencoded(i) =>
                        /\ InDeclarationOrder(ty.fields, RecordOut(i).members)
                        /\ MemberKeys(RecordOut(i)) = MemberKeys(RecordJson(i))
                             => InDeclarationOrder(ty.fields, members)

\* a message whose createdAt stands first was decoded and written back with
\* createdAt last, as declared
C28_Witness ==
    /\ codec = "direct_messages_group::Message"
    /\ Reencoded(1)
    /\ hist[1].v.members[1].key = "messageCreate"
    /\ RecordJson(1).members[1].key = "createdAt"
    /\ MemberKeys(RecordOut(1)) = FieldKeys(direct_messages_group_MessageCreate)
    /\ MemberKeys(RecordOut(1)) # MemberKeys(RecordJson(1))

\* the members left when those that hold null under an Option field's key
\* are taken out
WithoutNullOptionals(fields, members) ==
    SelectSeq(members, LAMBDA m :
        ~(/\ m.val.kind = "null"
          /\ IsSome(FieldIndex(fields, m.key))
          /\ ~Required(fields[Get(FieldIndex(fields, m.key))])))

\* C29: an Option field present in the input with the value null decodes to
\* None exactly as if the key were absent, and is left out by the encoder: a
\* decode followed by an encode does not give the key back.
C29_NullOptionalIsNoneAndOmitted ==
    codec \in Records =>
        \A i \in 1..Len(hist) :
            (IsRecordAt(i) /\ NoKeyTwice(RecordJson(i).members)) =>
                LET ty == RecordTypeAt(i)
                    members == RecordJson(i).members
                    without == Deserialize(ty, JObj(WithoutNullOptionals(ty.fields, members)))
                IN /\ (hist[i + 1].kind = "value") = IsOk(without)
                   /\ hist[i + 1].kind = "value" =>
                        /\ RecordValue(i) = without.val
                        /\ \A g \in 1..Len(ty.fields) :
                             (\E h \in 1..Len(members) :
                                 /\ members[h].key = ty.fields[g].key
                                 /\ members[h].val.kind = "null"
                                 /\ ~Required(ty.fields[g]))
                             => /\ RecordValue(i)[ty.fields[g].key] = None
                                /\ Reencoded(i) =>
                                     Absent(ty.fields[g].key, RecordOut(i).members)

\* a tweet with possibly_sensitive null was decoded with None there and
\* written back without the key
C29_Witness ==
    /\ codec = "tweets::Tweet"
    /\ Reencoded(1)
    /\ \E h \in 1..Len(hist[1].v.members) :
          /\ hist[1].v.members[h].key = "possibly_sensitive"
          /\ hist[1].v.members[h].val = JNull
    /\ hist[2].v.possibly_sensitive = None
    /\ Absent("possibly_sensitive", hist[3].v.members)

(***************************************************************************)
(* C30: one-to-one conversations take messageCreate elements only.         *)
(***************************************************************************)
OneToOne == {"direct_messages::DMConversation", "direct_message_headers::DmConversation"}
\* an element keyed by an event that only group conversations have
GroupOnlyEvent(e) ==
    /\ IsEvent(e)
    /\ e.members[1].key \in {"participantsLeave", "joinConversation"}
HasMessageCreate(e) ==
    /\ e.kind = "object"
    /\ \E m \in 1..Len(e.members) : e.members[m].key = "messageCreate"

\* C30: a one-to-one conversation (direct_messages, direct_message_headers)
\* accepts only message elements keyed messageCreate: a message list holding
\* an element keyed participantsLeave or joinConversation fails to decode as
\* a whole, and every element of an accepted list carries the key
\* messageCreate; the same element, its payload fitting its event, is
\* accepted as a message of a group conversation, whose lists of decodable
\* elements are accepted.
C30_OneToOneTakesMessageCreateOnly ==
    /\ codec \in OneToOne =>
         \A i \in 1..Len(hist) :
             Decoded(i) =>
                 /\ (\E k \in 1..Len(MessagesOf(hist[i].v)) :
                        GroupOnlyEvent(MessagesOf(hist[i].v)[k]))
                      => hist[i + 1].kind = "err"
                 /\ hist[i + 1].kind = "value" =>
                      \A k \in 1..Len(MessagesOf(hist[i].v)) :
                          HasMessageCreate(MessagesOf(hist[i].v)[k])
                 /\ \A k \in 1..Len(MessagesOf(hist[i].v)) :
                        (/\ GroupOnlyEvent(MessagesOf(hist[i].v)[k])
                         /\ IsOk(Deserialize(
                                VariantType(MessagesOf(hist[i].v)[k].members[1].key),
                                MessagesOf(hist[i].v)[k].members[1].val)))
                        => ~FailsAsMessage(MessagesOf(hist[i].v)[k])
    /\ codec = "direct_messages_group::DmConversation" =>
         \A i \in 1..Len(hist) :
             (/\ Decoded(i)
              /\ \A k \in 1..Len(MessagesOf(hist[i].v)) :
                    ~FailsAsMessage(MessagesOf(hist[i].v)[k]))
             => hist[i + 1].kind = "value"

\* a one-to-one list of a message followed by a participantsLeave element,
\* which a group conversation takes, is refused whole
C30_Witness ==
    /\ codec = "direct_messages::DMConversation"
    /\ Decoded(1)
    /\ Len(MessagesOf(hist[1].v)) = 2
    /\ IsOk(Deserialize(direct_messages_MessageCreateObject, MessagesOf(hist[1].v)[1]))
    /\ GroupOnlyEvent(MessagesOf(hist[1].v)[2])
    /\ ~FailsAsMessage(MessagesOf(hist[1].v)[2])
    /\ hist[2].kind = "err"

====
